---- MODULE Spec2Model ----
(***************************************************************************)
(* A model of musicdl's BaseMusicClient (modules/sources/base.py) and      *)
(* TIDALMusicClient (modules/sources/tidal.py):                            *)
(*   - the search()/download() thread-pool batches and their workers,      *)
(*   - _removeduplicates,                                                  *)
(*   - the quality negotiation of _getstreamfortrack, with the request     *)
(*     path _saferequestget -> get underneath it, the loop of _search over *)
(*     the tracks of an answer around it and the construction of the       *)
(*     client before it,                                                   *)
(*   - _saferequestget in several workers that share the client,           *)
(*   - the scratch directory and the saved file of _download in several    *)
(*     workers,                                                            *)
(*   - _download for one item, from the choice of the extensions to the    *)
(*     appended result, with the progress tasks it updates,                *)
(*   - _parsemanifest and _primarystreamurl in one pass of the negotiation,*)
(*   - the SegmentTemplate and the codec of one DASH representation,       *)
(*   - the loop of search() and parse_url that resolves the album artists, *)
(*   - the paging loop that fetches the tracks of an album or a playlist.  *)
(* Each part has its own specification; the variables of the other parts   *)
(* stay at their idle values.                                              *)
(***************************************************************************)
EXTENDS Naturals, Integers, Sequences, FiniteSets, TLC

(***************************************************************************)
(* Bounds of the model.                                                    *)
(***************************************************************************)
\* Number of items of one batch: search urls of search(), song_infos of download().
NumItems == 3
\* The num_threadings argument of search()/download().
NumThreadings == 2
\* Longest song_infos list given to _removeduplicates.
MaxLen == 3
\* Most chunks that iter_content yields for one response.
MaxChunks == 2
\* Longest track list of an album or a playlist on the server.
MaxTracks == 5
\* The page size that _fetchalbumtracks and _fetchplaylisttracks ask for (100 in the
\* code, tidal.py 472 and 500), scaled down.
limit == 2

Items == 1..NumItems
\* Track identifiers the provider knows (track.id).
TrackIds == {"T1", "T2"}
\* What tells two records with the same identifier apart: the search url they came from.
Origins == {1, 2}

\* The exceptions the body of a download worker raises: `assert check` raises an
\* AssertionError, the file operations an OSError.
Errors == {"AssertionError", "OSError"}
\* The exception the request of a search worker raises (raise_for_status).
SearchErrors == {"HTTPError"}

\* str(err), as "{err}" formats it: an AssertionError raised by a bare assert has no
\* message.
str(err) ==
    CASE err = "AssertionError" -> ""
      [] err = "OSError" -> "No space left on device"
      [] err = "HTTPError" -> "404 Client Error"

VARIABLES
    \* ---- search()/download() batch
    kind,            \* "search" or "download": which batch runs
    mainpc,          \* position of the calling thread in search()/download()
    nSubmitted,      \* number of pool.submit calls made (items 1..nSubmitted)
    nYielded,        \* number of futures as_completed has yielded
    wpc,             \* wpc[i]: position of the worker of item i
    raised,          \* raised[i]: the exception the worker of item i caught, or "none"
    taskDesc,        \* taskDesc[i]: the description worker i last wrote: into item i's
                     \* own progress task (download), into the batch task (search)
    batchCompleted,  \* completed count of the batch's progress task
    batchDesc,       \* the count the calling thread last wrote into the batch description
    song_infos,      \* the shared result list: song_infos / downloaded_song_infos
    page,            \* search: page[i], the tracks of the answer to search url i that
                     \* yield a song_info
    pidx,            \* search: pidx[i], position of worker i in page[i]
    returned,        \* the list search()/download() returned
    snapshots,       \* the pickle files the batch has written: [file, entries]
    \* ---- _removeduplicates
    dIn,             \* the list given to _removeduplicates
    dOut,            \* what it returned
    dAgain,          \* what it returned when given dOut
    dpc,             \* "in", "once", "twice"
    \* ---- _build_song_info -> _getstreamfortrack -> _saferequestget -> get, one track
    npc,             \* position: "construct", "unconstructed", "loop", "get", "gotresp",
                     \* "handle", "returned", "raised", "built", "pagedone"
    tier,            \* index into qualities of the tier of the current loop pass
    call,            \* which get() of _saferequestget runs: 1, or 2 after a refresh
    attempt,         \* passes of the retry loop of the running get() made so far
    resp,            \* resp of the running get(): "None" or the status of a response
    last,            \* what the latest session.get did: "none" before the first one of a
                     \* get(), then "exception" or the status of the response
    requested,       \* the audioquality of each playback-info request, in order
    probed,          \* the reachability probes made, in order: [tier, ok]
    nHttp,           \* session.get calls made for playback info
    nFailed,         \* those of them that raised or came back with a status other than 200
    nRefresh,        \* tidal_session.refresh() calls
    result,          \* what _getstreamfortrack returned
    built,           \* what _build_song_info returned
    \* ---- the loop of _search over the tracks of one answer
    ptracks,         \* search_result.id of each track of the answer, "None" for a track
                     \* without id
    tidx,            \* index into ptracks of the track being resolved
    pageInfos,       \* identifiers of the song_infos appended for this answer, in order
    outcomes,        \* how the resolution of each track with an id ended, in order:
                     \* "accepted", "exhausted" (line 393) or "raised"
    \* ---- _saferequestget called by the workers of one batch at the same time
    apc,             \* apc[w]: position of worker w: "get", "gotresp", "refresh",
                     \* "setheaders", "done"
    acall,           \* acall[w]: which get() of its _saferequestget runs: 1 or 2
    aattempt,        \* aattempt[w]: passes of the retry loop of that get() made so far
    aresp,           \* aresp[w]: resp of that get(): "None" or the status of a response
    sentGen,         \* sentGen[w]: the generation of the auth headers that the latest
                     \* request of w carried
    headerGen,       \* generation of the auth headers in self.default_headers
    sessionGen,      \* generation of tidal_session.auth_headers: refresh() makes the next
    validFrom,       \* the provider rejects (401) the generations below this one
    refreshLog,      \* the refresh() calls, in order: [by: the worker, saw: the generation
                     \* whose rejection made it call]
    sharedWrites,    \* sharedWrites[a]: the workers that have assigned attribute a of
                     \* the client they share
    \* ---- the with-block of TIDALMusicClient._download in the workers of one batch
    spc,             \* spc[w]: position of worker w: "queued", "prepare", "fetch",
                     \* "decrypt", "remux", "name", "replace", "tag", "done", "failed"
    save_path,       \* save_path[w]: 0 for <song_name><ext>, k for <song_name>_k<ext>
    same_name_file_idx,  \* same_name_file_idx[w]
    scratch,         \* scratch[w]: the TemporaryDirectory of worker w exists
    failedAt,        \* failedAt[w]: the position at which worker w raised, or "none"
    files,           \* files[n]: who wrote the file of name n in work_dir: "none" (no
                     \* such file), "old" (it was there before the batch), or a worker
    files0,          \* files at the start of the batch
    clobbered,       \* the replacements of a file that existed: [path, was, by]
    wrote,           \* wrote[w]: the names under which worker w has put bytes in work_dir
    tagFailed,       \* tagFailed[w]: the tag write of worker w failed
    sthreads,        \* num_threadings of this batch
    client,          \* whose _download runs: "tidal" (tidal.py 238-305) or "base"
                     \* (base.py 441-485)
    cut,             \* the calling thread was interrupted while waiting for the workers
    bpc,             \* position of the calling thread: "waiting", "returned", "interrupted"
    \* ---- _download for one item (tidal.py 238-305, base.py 441-485)
    ipc,             \* position of the worker: "start", "fetch", "remux", "save",
                     \* "advance", "chunks", "tag", "copy", "setpath", "setext",
                     \* "append", "done", "failed"
    iclient,         \* whose _download runs: "tidal" or "base"
    song_ext,        \* song_info['ext'] as the worker received it
    surl,            \* stream_url.url, a sequence of tokens
    surls,           \* stream_url.urls
    codec,           \* stream_url.codec, a sequence of tokens; <<>> for None and ""
    ffmpeg,          \* what ffmpegready() returns
    pyav,            \* what pyavready() returns
    remuxOut,        \* what remuxflacstream does: "converted" or "same"
    content_length,  \* the content-length header of the response, 0 if absent
    chunks,          \* the lengths of the chunks iter_content has still to yield
    downloaded_size, \* the local of that name (base.py 448)
    download_ext,    \* the locals of those names (tidal.py 246-253)
    final_ext,
    remux_required,
    remuxTried,      \* remuxflacstream was called
    content,         \* the bytes at decrypted_path: "none", "native", "remuxed"
    saved,           \* the file put at save_path: [ext, bytes], NoFile before
    heap,            \* the dicts: heap[o] is the dict of identity o
    downloaded_song_info,   \* the local of that name: an identity, "none" before
    downloaded_song_infos,  \* the results list of the batch: identities
    taskTotal,       \* total of the item's progress task: <<>> for None, <<n>> for n
    taskCompleted,   \* completed of the item's progress task
    songsCompleted,  \* completed of the batch's progress task
    \* ---- one manifest in _getstreamfortrack (tidal.py 381-392)
    mpc,             \* position: "parse", "parsed", "probe", "accepted", "skipped"
    mformat,         \* the manifest's type: "bt" (vnd.tidal.bt) or "dash" (dash+xml)
    manifest,        \* what the manifest names: urls, or representations
    mstream,         \* the stream_url that _parsemanifest made
    primary_url,     \* the local of that name; "" for None
    \* ---- one representation of a DASH manifest (tidal.py 87-99, 184-189)
    xpc,             \* position: "template", "segments", "codec", "done"
    xtimeline,       \* the S elements of the SegmentTimeline
    xstart,          \* the startNumber attribute of the SegmentTemplate
    xcodec,          \* the codecs attribute of the Representation
    xtemplate,       \* the SegmentTemplate that _parsesegmenttemplate made
    xsegments,       \* representation.segments
    stream_codec,    \* stream_url.codec
    \* ---- the album artists of one batch (base.py 415-428, tidal.py 573-584)
    lkind,           \* whose loop runs: "search" or "parse_url"
    lsongs,          \* the song_infos, by album and singers
    lidx,            \* the position of the loop in song_infos
    album_artist_map,\* the dict of that name: "" for a key it does not have
    resolutions,     \* the calls of _resolve_artist_name, with their preferred_artist
    lout,            \* album_artist_resolved and the artist directory of each item
    \* ---- the tracks of an album or a playlist (tidal.py 470-524)
    server,          \* the track list of the server
    reported,        \* the totalNumberOfItems that the server reports
    fcap,            \* the most items that the server puts on one page
    offset,          \* the local of that name
    tracks,          \* the list that the function returns
    offsets,         \* the offsets of the requests sent so far
    fpc              \* "loop", "returned" or "raised"

orchVars == <<kind, mainpc, nSubmitted, nYielded, wpc, raised, taskDesc, batchCompleted,
              batchDesc, song_infos, page, pidx, returned, snapshots>>
dedupVars == <<dIn, dOut, dAgain, dpc>>
pageVars == <<ptracks, tidx, pageInfos, outcomes>>
negVars == <<npc, tier, call, attempt, resp, last, requested, probed, nHttp, nFailed,
             nRefresh, result, built, pageVars>>
authVars == <<apc, acall, aattempt, aresp, sentGen, headerGen, sessionGen, validFrom,
              refreshLog, sharedWrites>>
saveVars == <<spc, save_path, same_name_file_idx, scratch, failedAt, files, files0,
              clobbered, wrote, tagFailed, sthreads, client, cut, bpc>>
itemVars == <<ipc, iclient, song_ext, surl, surls, codec, ffmpeg, pyav, remuxOut,
              content_length, chunks, downloaded_size, download_ext, final_ext,
              remux_required, remuxTried, content, saved, heap, downloaded_song_info,
              downloaded_song_infos, taskTotal, taskCompleted, songsCompleted>>
manifestVars == <<mpc, mformat, manifest, mstream, primary_url>>
dashVars == <<xpc, xtimeline, xstart, xcodec, xtemplate, xsegments, stream_codec>>
albumVars == <<lkind, lsongs, lidx, album_artist_map, resolutions, lout>>
fetchVars == <<server, reported, fcap, offset, tracks, offsets, fpc>>
pipeVars == <<itemVars, manifestVars, dashVars, albumVars, fetchVars>>
vars == <<orchVars, dedupVars, negVars, authVars, saveVars, pipeVars>>

\* The workers of the batch that the request path and the with-block are followed in.
Callers == {"w1", "w2"}
\* The file names in work_dir: 0 is <song_name><ext>, k is <song_name>_k<ext>.
Names == {0, 1, 2, 3}
\* The names that a file present before the batch may have.
OldNames == {0, 1}
\* The attributes of the client that the request path assigns: self.session,
\* self.session.proxies, the default headers, the credentials of self.tidal_session.
SharedAttrs == {"session", "session.proxies", "default_headers", "tidal_session"}

\* No file at save_path.
NoFile == [ext |-> "none", bytes |-> "none"]

\* The identities of the dicts: the song_info given to the worker, and one more.
ObjIds == {"o1", "o2"}

\* No dict of that identity.
NoObj == [live |-> FALSE, ext |-> "", save_path |-> "", resolved |-> FALSE]

(***************************************************************************)
(* The values of a part's variables while another part runs.               *)
(***************************************************************************)
ItemIdle ==
    /\ ipc = "idle"
    /\ iclient = "none"
    /\ song_ext = ""
    /\ surl = <<>>
    /\ surls = <<>>
    /\ codec = <<>>
    /\ ffmpeg = FALSE
    /\ pyav = FALSE
    /\ remuxOut = "same"
    /\ content_length = 0
    /\ chunks = <<>>
    /\ downloaded_size = 0
    /\ download_ext = ""
    /\ final_ext = ""
    /\ remux_required = FALSE
    /\ remuxTried = FALSE
    /\ content = "none"
    /\ saved = NoFile
    /\ heap = [o \in ObjIds |-> NoObj]
    /\ downloaded_song_info = "none"
    /\ downloaded_song_infos = <<>>
    /\ taskTotal = <<>>
    /\ taskCompleted = 0
    /\ songsCompleted = 0

ManifestIdle ==
    /\ mpc = "idle"
    /\ mformat = "none"
    /\ manifest = <<>>
    /\ mstream = [kind |-> "stream", url |-> "", urls |-> <<>>]
    /\ primary_url = ""

DashIdle ==
    /\ xpc = "idle"
    /\ xtimeline = <<>>
    /\ xstart = <<>>
    /\ xcodec = <<>>
    /\ xtemplate = [start_number |-> 0, timeline |-> <<>>]
    /\ xsegments = <<>>
    /\ stream_codec = <<>>

AlbumIdle ==
    /\ lkind = "none"
    /\ lsongs = <<>>
    /\ lidx = 1
    /\ album_artist_map = <<>>
    /\ resolutions = <<>>
    /\ lout = <<>>

FetchIdle ==
    /\ server = <<>>
    /\ reported = <<>>
    /\ fcap = 1
    /\ offset = 0
    /\ tracks = <<>>
    /\ offsets = <<>>
    /\ fpc = "idle"

PipeIdle == ItemIdle /\ ManifestIdle /\ DashIdle /\ AlbumIdle /\ FetchIdle

\* No StreamUrl: the None that _getstreamfortrack returns in place of a descriptor.
NoStream == [tier |-> 0, soundQuality |-> "None", mime |-> "None"]

\* No song_info: the None that _build_song_info returns.
NoSongInfo == [download_url |-> NoStream, download_url_status |-> FALSE]

NoDesc == [state |-> "none", n |-> 0, reason |-> ""]

OrchIdle ==
    /\ kind = "none"
    /\ mainpc = "idle"
    /\ nSubmitted = 0
    /\ nYielded = 0
    /\ wpc = [i \in Items |-> "unsubmitted"]
    /\ raised = [i \in Items |-> "none"]
    /\ taskDesc = [i \in Items |-> NoDesc]
    /\ batchCompleted = 0
    /\ batchDesc = 0
    /\ snapshots = <<>>
    /\ song_infos = <<>>
    /\ page = [i \in Items |-> <<>>]
    /\ pidx = [i \in Items |-> 1]
    /\ returned = <<>>

DedupIdle ==
    /\ dIn = <<>>
    /\ dOut = <<>>
    /\ dAgain = <<>>
    /\ dpc = "idle"

NegIdle ==
    /\ npc = "idle"
    /\ tier = 0
    /\ call = 0
    /\ attempt = 0
    /\ resp = "None"
    /\ last = "none"
    /\ ptracks = <<>>
    /\ tidx = 0
    /\ pageInfos = <<>>
    /\ outcomes = <<>>
    /\ requested = <<>>
    /\ probed = <<>>
    /\ nHttp = 0
    /\ nFailed = 0
    /\ nRefresh = 0
    /\ result = [stream |-> NoStream, ok |-> FALSE]
    /\ built = NoSongInfo

AuthIdle ==
    /\ apc = [w \in Callers |-> "idle"]
    /\ acall = [w \in Callers |-> 0]
    /\ aattempt = [w \in Callers |-> 0]
    /\ aresp = [w \in Callers |-> "None"]
    /\ sentGen = [w \in Callers |-> 0]
    /\ headerGen = 0
    /\ sessionGen = 0
    /\ validFrom = 0
    /\ refreshLog = <<>>
    /\ sharedWrites = [a \in SharedAttrs |-> {}]

SaveIdle ==
    /\ spc = [w \in Callers |-> "idle"]
    /\ save_path = [w \in Callers |-> 0]
    /\ same_name_file_idx = [w \in Callers |-> 0]
    /\ scratch = [w \in Callers |-> FALSE]
    /\ failedAt = [w \in Callers |-> "none"]
    /\ files = [n \in Names |-> "none"]
    /\ files0 = [n \in Names |-> "none"]
    /\ clobbered = {}
    /\ wrote = [w \in Callers |-> {}]
    /\ tagFailed = [w \in Callers |-> FALSE]
    /\ sthreads = 0
    /\ client = "none"
    /\ cut = FALSE
    /\ bpc = "idle"

(***************************************************************************)
(* _removeduplicates (base.py 381-388)                                     *)
(***************************************************************************)
SongInfos == [identifier : TrackIds, origin : Origins]

RECURSIVE RemoveDupLoop(_, _, _)
\* The for loop: rest is what is left of song_infos, unique the list built so far,
\* identifiers the set of identifiers seen.
RemoveDupLoop(rest, unique, identifiers) ==
    IF rest = <<>> THEN unique
    ELSE LET song_info == Head(rest) IN
         IF song_info.identifier \in identifiers
         THEN RemoveDupLoop(Tail(rest), unique, identifiers)
         ELSE RemoveDupLoop(Tail(rest), Append(unique, song_info),
                            identifiers \cup {song_info.identifier})

RECURSIVE RemoveDupToggle(_, _, _)
\* A set that forgets an identifier when it skips a duplicate of it.
RemoveDupToggle(rest, unique, identifiers) ==
    IF rest = <<>> THEN unique
    ELSE LET song_info == Head(rest) IN
         IF song_info.identifier \in identifiers
         THEN RemoveDupToggle(Tail(rest), unique, identifiers \ {song_info.identifier})
         ELSE RemoveDupToggle(Tail(rest), Append(unique, song_info),
                              identifiers \cup {song_info.identifier})

RECURSIVE RemoveDupLast(_, _)
\* Keeps the last record of each identifier instead of the first.
RemoveDupLast(rest, unique) ==
    IF rest = <<>> THEN unique
    ELSE LET song_info == Head(rest)
             later == {j \in 1..Len(Tail(rest)) : Tail(rest)[j].identifier = song_info.identifier}
         IN IF later # {}
            THEN RemoveDupLast(Tail(rest), unique)
            ELSE RemoveDupLast(Tail(rest), Append(unique, song_info))

_removeduplicates_toggle(L) == RemoveDupToggle(L, <<>>, {})

_removeduplicates_last(L) == RemoveDupLast(L, <<>>)

_removeduplicates(L) == RemoveDupLoop(L, <<>>, {})

SeqsUpTo(S, n) == UNION {[1..k -> S] : k \in 0..n}

DedupInit ==
    /\ dIn \in SeqsUpTo(SongInfos, MaxLen)
    /\ dOut = <<>>
    /\ dAgain = <<>>
    /\ dpc = "in"

\* search(): song_infos = self._removeduplicates(song_infos=song_infos)
DedupOnce ==
    /\ dpc = "in"
    /\ dOut' = _removeduplicates(dIn)
    /\ dpc' = "once"
    /\ UNCHANGED <<dIn, dAgain>>

\* _removeduplicates given its own result
DedupTwice ==
    /\ dpc = "once"
    /\ dAgain' = _removeduplicates(dOut)
    /\ dpc' = "twice"
    /\ UNCHANGED <<dIn, dOut>>

(***************************************************************************)
(* search() and download(): the thread pool and its workers                *)
(* (base.py 395-438 and 488-521, tidal.py 238-330)                         *)
(***************************************************************************)
\* What a search url can answer with, as far as song_infos goes: the identifiers of
\* the tracks of its page for which _build_song_info returns a song_info, in page
\* order (the tracks without id, and those for which it returns None, add nothing).
Pages == {<<>>, <<"T1">>, <<"T1", "T2">>}

\* "(Error: {err})" in a description.
ErrorDesc(n, err) == [state |-> "Error", n |-> n, reason |-> str(err)]

\* The workers a pool thread is running.
Executing == {i \in Items : wpc[i] \notin {"unsubmitted", "queued", "done"}}

Done == {i \in Items : wpc[i] = "done"}

PoolUnbounded(executing) == TRUE

\* ThreadPoolExecutor(max_workers=num_threadings): a queued item starts only on a
\* thread that runs nothing.
PoolHasIdleThread(executing) == Cardinality(executing) < NumThreadings

OrchInit ==
    /\ kind \in {"search", "download"}
    /\ mainpc = "submit"
    /\ nSubmitted = 0
    /\ nYielded = 0
    /\ wpc = [i \in Items |-> "unsubmitted"]
    /\ raised = [i \in Items |-> "none"]
    /\ taskDesc = [i \in Items |->
                     IF kind = "download" THEN [state |-> "Preparing", n |-> i, reason |-> ""]
                     ELSE NoDesc]
    /\ batchCompleted = 0
    /\ batchDesc = 0
    /\ snapshots = <<>>
    /\ song_infos = <<>>
    /\ page = [i \in Items |-> <<>>]
    /\ pidx = [i \in Items |-> 1]
    /\ returned = <<>>

\* pool.submit(self._search / self._download, ...) in the for loop.
Submit ==
    /\ mainpc = "submit"
    /\ nSubmitted' = nSubmitted + 1
    /\ wpc' = [wpc EXCEPT ![nSubmitted + 1] = "queued"]
    /\ mainpc' = IF nSubmitted + 1 = NumItems THEN "collect" ELSE "submit"
    /\ UNCHANGED <<kind, nYielded, raised, taskDesc, batchCompleted, batchDesc, song_infos,
                   page, pidx, returned, snapshots>>

\* A pool thread takes the oldest queued item.
Start(i) ==
    /\ wpc[i] = "queued"
    /\ \A j \in Items : j < i => wpc[j] # "queued"
    /\ PoolHasIdleThread(Executing)
    /\ wpc' = [wpc EXCEPT ![i] = IF kind = "download" THEN "prepare" ELSE "request"]
    /\ UNCHANGED <<kind, mainpc, nSubmitted, nYielded, raised, taskDesc, batchCompleted,
                   batchDesc, song_infos, page, pidx, returned, snapshots>>

ResultsAfterExcept_partial(list, i) ==
    Append(list, [identifier |-> IF kind = "search" THEN "T1" ELSE i, origin |-> i])

\* The result list after the except clause of _download / _search: left alone.
ResultsAfterExcept(list, i) == list

DlExcept_escapes(i, err) ==
    /\ raised' = [raised EXCEPT ![i] = err]
    /\ wpc' = [wpc EXCEPT ![i] = "done"]
    /\ UNCHANGED <<taskDesc, song_infos>>

DlExcept_dies(i, err) ==
    /\ raised' = [raised EXCEPT ![i] = err]
    /\ taskDesc' = [taskDesc EXCEPT ![i] = ErrorDesc(i, err)]
    /\ wpc' = [wpc EXCEPT ![i] = "dead"]
    /\ UNCHANGED song_infos

\* tidal.py 302-305: except Exception as err: description "(Error: {err})"; return.
DlExcept(i, err) ==
    /\ raised' = [raised EXCEPT ![i] = err]
    /\ taskDesc' = [taskDesc EXCEPT ![i] = ErrorDesc(i, err)]
    /\ song_infos' = ResultsAfterExcept(song_infos, i)
    /\ wpc' = [wpc EXCEPT ![i] = "done"]

\* tidal.py 244-256: touchdir, the extensions, progress total=1, "(Downloading".
DlPrepare(i) ==
    /\ kind = "download"
    /\ wpc[i] = "prepare"
    /\ \/ /\ taskDesc' = [taskDesc EXCEPT ![i] = [state |-> "Downloading", n |-> i, reason |-> ""]]
          /\ wpc' = [wpc EXCEPT ![i] = "assemble"]
          /\ UNCHANGED <<raised, song_infos>>
       \/ DlExcept(i, "OSError")
    /\ UNCHANGED <<kind, mainpc, nSubmitted, nYielded, batchCompleted, batchDesc, page, pidx,
                   returned, snapshots>>

\* tidal.py 258-292: fetch (assert check), decrypt, remux, move to work_dir, tag.
DlAssemble(i) ==
    /\ kind = "download"
    /\ wpc[i] = "assemble"
    /\ \/ /\ wpc' = [wpc EXCEPT ![i] = "mark"]
          /\ UNCHANGED <<raised, taskDesc, song_infos>>
       \/ \E err \in Errors : DlExcept(i, err)
    /\ UNCHANGED <<kind, mainpc, nSubmitted, nYielded, batchCompleted, batchDesc, page, pidx,
                   returned, snapshots>>

\* tidal.py 294-296: advance both tasks, description "(Success)".
DlMark(i) ==
    /\ kind = "download"
    /\ wpc[i] = "mark"
    /\ batchCompleted' = batchCompleted + 1
    /\ taskDesc' = [taskDesc EXCEPT ![i] = [state |-> "Success", n |-> i, reason |-> ""]]
    /\ wpc' = [wpc EXCEPT ![i] = "append"]
    /\ UNCHANGED <<kind, mainpc, nSubmitted, nYielded, raised, batchDesc, song_infos, page,
                   pidx, returned, snapshots>>

AppendResult_overwrite(list, info) == <<info>>

\* list.append of the shared list.
AppendResult(list, info) == Append(list, info)

\* tidal.py 297-300: deepcopy, save_path, ext, append.
DlAppend(i) ==
    /\ kind = "download"
    /\ wpc[i] = "append"
    /\ song_infos' = AppendResult(song_infos, [identifier |-> i, origin |-> i])
    /\ wpc' = [wpc EXCEPT ![i] = "done"]
    /\ UNCHANGED <<kind, mainpc, nSubmitted, nYielded, raised, taskDesc, batchCompleted,
                   batchDesc, page, pidx, returned, snapshots>>

\* tidal.py 314-316 and 327-328: the request, raise_for_status, the page of tracks;
\* or the except clause.
SrRequest(i) ==
    /\ kind = "search"
    /\ wpc[i] = "request"
    /\ \/ /\ \E p \in Pages : page' = [page EXCEPT ![i] = p]
          /\ wpc' = [wpc EXCEPT ![i] = "loop"]
          /\ UNCHANGED <<raised, taskDesc, song_infos>>
       \/ \E err \in SearchErrors :
             /\ raised' = [raised EXCEPT ![i] = err]
             /\ taskDesc' = [taskDesc EXCEPT ![i] = ErrorDesc(i, err)]
             /\ song_infos' = ResultsAfterExcept(song_infos, i)
             /\ wpc' = [wpc EXCEPT ![i] = "done"]
             /\ UNCHANGED page
    /\ UNCHANGED <<kind, mainpc, nSubmitted, nYielded, batchCompleted, batchDesc, pidx,
                   returned, snapshots>>

\* tidal.py 317-322: the next track for which _build_song_info gives a song_info:
\* the song_info is appended.
SrTrack(i) ==
    /\ kind = "search"
    /\ wpc[i] = "loop"
    /\ pidx[i] <= Len(page[i])
    /\ song_infos' = AppendResult(song_infos, [identifier |-> page[i][pidx[i]], origin |-> i])
    /\ pidx' = [pidx EXCEPT ![i] = pidx[i] + 1]
    /\ UNCHANGED <<kind, mainpc, nSubmitted, nYielded, wpc, raised, taskDesc, batchCompleted,
                   batchDesc, page, returned, snapshots>>

\* tidal.py 324-325, 330: advance the task, description "(Success)", return.
SrMark(i) ==
    /\ kind = "search"
    /\ wpc[i] = "loop"
    /\ pidx[i] > Len(page[i])
    /\ batchCompleted' = batchCompleted + 1
    /\ taskDesc' = [taskDesc EXCEPT ![i] = [state |-> "Success", n |-> i, reason |-> ""]]
    /\ wpc' = [wpc EXCEPT ![i] = "done"]
    /\ UNCHANGED <<kind, mainpc, nSubmitted, nYielded, raised, batchDesc, song_infos, page,
                   pidx, returned, snapshots>>

\* One pass of `for _ in as_completed(submitted_tasks)`: read the completed count of
\* the batch task, write it into its description.
Collect ==
    /\ mainpc = "collect"
    /\ nYielded < Cardinality(Done)
    /\ nYielded' = nYielded + 1
    /\ batchDesc' = batchCompleted
    /\ UNCHANGED <<kind, mainpc, nSubmitted, wpc, raised, taskDesc, batchCompleted,
                   song_infos, page, pidx, returned, snapshots>>

\* base.py 429-434, 512-517: a list that is not empty is pickled into
\* search_results.pkl or download_results.pkl in the work_dir of its first entry.
SaveResults(snaps, k, results) ==
    IF Len(results) > 0
    THEN Append(snaps, [file |-> IF k = "search" THEN "search_results.pkl"
                                                  ELSE "download_results.pkl",
                        entries |-> results])
    ELSE snaps

\* After the last future: the pool and the progress display are left; search()
\* removes the duplicates; the list is saved and returned.
Finish ==
    /\ mainpc = "collect"
    /\ nYielded = NumItems
    /\ returned' = IF kind = "search" THEN _removeduplicates(song_infos) ELSE song_infos
    /\ snapshots' = SaveResults(snapshots, kind, returned')
    /\ mainpc' = "returned"
    /\ UNCHANGED <<kind, nSubmitted, nYielded, wpc, raised, taskDesc, batchCompleted,
                   batchDesc, song_infos, page, pidx>>

\* What a batch leaves alone: the variables of the other parts.
outsideBatch == <<dedupVars, negVars, authVars, saveVars, pipeVars>>

\* A step of the worker of item i.
WorkerStep(i) ==
    /\ \/ Start(i)
       \/ DlPrepare(i)
       \/ DlAssemble(i)
       \/ DlMark(i)
       \/ DlAppend(i)
       \/ SrRequest(i)
       \/ SrTrack(i)
       \/ SrMark(i)
    /\ UNCHANGED outsideBatch

\* A step of the thread that called search()/download().
MainStep == (Submit \/ Collect \/ Finish) /\ UNCHANGED outsideBatch

Init == OrchInit /\ DedupIdle /\ NegIdle /\ AuthIdle /\ SaveIdle /\ PipeIdle

Next ==
    \/ Submit /\ UNCHANGED outsideBatch
    \/ Collect /\ UNCHANGED outsideBatch
    \/ Finish /\ UNCHANGED outsideBatch
    \/ \E i \in Items : Start(i) /\ UNCHANGED outsideBatch
    \/ \E i \in Items : DlPrepare(i) /\ UNCHANGED outsideBatch
    \/ \E i \in Items : DlAssemble(i) /\ UNCHANGED outsideBatch
    \/ \E i \in Items : DlMark(i) /\ UNCHANGED outsideBatch
    \/ \E i \in Items : DlAppend(i) /\ UNCHANGED outsideBatch
    \/ \E i \in Items : SrRequest(i) /\ UNCHANGED outsideBatch
    \/ \E i \in Items : SrTrack(i) /\ UNCHANGED outsideBatch
    \/ \E i \in Items : SrMark(i) /\ UNCHANGED outsideBatch

Spec == Init /\ [][Next]_vars

\* The calling thread and the pool's threads are OS threads: while one of them can
\* take a step, a step is taken. A step stands for an I/O call that has returned.
FairSpec == Spec /\ WF_vars(Next)

outsideDedup == <<orchVars, negVars, authVars, saveVars, pipeVars>>

DedupNext ==
    \/ DedupOnce /\ UNCHANGED outsideDedup
    \/ DedupTwice /\ UNCHANGED outsideDedup

InitDedup == OrchIdle /\ DedupInit /\ NegIdle /\ AuthIdle /\ SaveIdle /\ PipeIdle

SpecDedup == InitDedup /\ [][DedupNext]_vars

(***************************************************************************)
(* _build_song_info, _getstreamfortrack, _saferequestget (tidal.py 67-74,  *)
(* 364-393, 410-452) and get (base.py 523-545), for one track              *)
(***************************************************************************)
\* The max_retries argument of the client; 5 when not given.
max_retries == 5

qualities_swapped == <<"LOSSLESS", "HI_RES_LOSSLESS", "HIGH", "LOW">>

\* The audioquality values of the list `qualities`, in its order.
qualities == <<"HI_RES_LOSSLESS", "LOSSLESS", "HIGH", "LOW">>

\* The status codes a playback-info response comes back with.
Statuses == {"200", "204", "401", "403", "404"}

\* What one session.get call does: raises, or returns a response with a status.
Outcomes == {"exception"} \cup Statuses

\* What the manifestMimeType of a playback-info answer is: one of the two that
\* _parsemanifest knows, another one, or None.
MimeTypes == {"vnd.tidal.bt", "dash+xml", "other", "None"}

\* What _parsemanifest and _primarystreamurl make of the manifest: an exception,
\* None (a DASH manifest without a playable representation), a StreamUrl without
\* any url, a StreamUrl with a primary url.
ParseOutcomes == {"exception", "None", "nourl", "ok"}

\* isvalidresp of utils: a response, with status 200. The status 204 stands for the
\* 2xx answers other than 200, which it may take either way.
isvalidresp(r, lenient) == r # "None" /\ (r = "200" \/ (r = "204" /\ lenient))

RetryLoopGoesOn_offbyone(n) == n <= max_retries

\* for _ in range(self.max_retries): n passes made, another one follows.
RetryLoopGoesOn(n) == n < max_retries

ProbeAccepts_any(ok) == TRUE

\* if download_url_status.get('ok'): return ...
ProbeAccepts(ok) == ok

Exhausted_early(t) == t > Len(qualities) - 1

\* `for _, quality in qualities` has no pass left when t - 1 passes were made.
Exhausted(t) == t > Len(qualities)

\* The index of the first track after position i of the answer p that has an id
\* (tidal.py 318-319: the others are passed over), Len(p) + 1 when there is none.
NextTrackIdx(p, i) ==
    IF \E j \in (i + 1)..Len(p) : p[j] # "None"
    THEN CHOOSE j \in (i + 1)..Len(p) :
            p[j] # "None" /\ \A k \in (i + 1)..(j - 1) : p[k] = "None"
    ELSE Len(p) + 1

\* The answers to a search url the negotiation is followed on: one track; a track,
\* a track without id and another track.
OneTrackPage == <<"T1">>
ThreeTrackPage == <<"T1", "None", "T2">>

\* The variables of the negotiation before the first track of the answer p.
NegFresh(p) ==
    /\ tier = 1
    /\ call = 0
    /\ attempt = 0
    /\ resp = "None"
    /\ last = "none"
    /\ requested = <<>>
    /\ probed = <<>>
    /\ nHttp = 0
    /\ nFailed = 0
    /\ nRefresh = 0
    /\ result = [stream |-> NoStream, ok |-> FALSE]
    /\ built = NoSongInfo
    /\ ptracks = p
    /\ tidx = NextTrackIdx(p, 0)
    /\ pageInfos = <<>>
    /\ outcomes = <<>>

\* The state at the call of _build_song_info for the first track of the answer p
\* (tidal.py 320), in a client constructed without a cached session.
NegStart(p) ==
    /\ npc = "loop"
    /\ NegFresh(p)

NegInit == NegStart(OneTrackPage)

\* tidal.py 36-60, the construction of the client: a session loaded from the cache
\* is refreshed, and a device login (auth) is made when there is none or when its
\* refresh raises; an exception of auth() leaves no client.
Construct ==
    /\ npc = "construct"
    /\ \E cached_session \in BOOLEAN, refreshRaises \in BOOLEAN, authRaises \in BOOLEAN :
          /\ nRefresh' = IF cached_session THEN nRefresh + 1 ELSE nRefresh
          /\ npc' = IF (~cached_session \/ refreshRaises) /\ authRaises
                    THEN "unconstructed"
                    ELSE "loop"
    /\ UNCHANGED <<tier, call, attempt, resp, last, requested, probed, nHttp, nFailed,
                   result, built, pageVars>>

AttemptReturns_never(o) == FALSE

\* base.py 543-544: `if resp.status_code != 200: continue` / `return resp`.
AttemptReturns(o) == o = "200"

NeedsRefresh_404(r) == r \in {"401", "403", "404"}

\* tidal.py 69: `if resp.status_code in [401, 403]`.
NeedsRefresh(r) == r \in {"401", "403"}

\* tidal.py 372-375 and 68: the next pass of `for _, quality in qualities`: the
\* request parameters, _saferequestget, its first get().
NegTier ==
    /\ npc = "loop"
    /\ ~Exhausted(tier)
    /\ requested' = Append(requested, qualities[tier])
    /\ call' = 1
    /\ attempt' = 0
    /\ resp' = "None"
    /\ last' = "none"
    /\ npc' = "get"
    /\ UNCHANGED <<tier, probed, nHttp, nFailed, nRefresh, result, built, pageVars>>

\* tidal.py 393: the list is exhausted.
NegExhausted ==
    /\ npc = "loop"
    /\ Exhausted(tier)
    /\ result' = [stream |-> NoStream, ok |-> FALSE]
    /\ npc' = "returned"
    /\ UNCHANGED <<tier, call, attempt, resp, last, requested, probed, nHttp, nFailed,
                   nRefresh, built, pageVars>>

\* base.py 526-545: one pass of the retry loop of get(): session.get raises (continue),
\* answers with a status other than 200 (continue) or with 200 (return resp); after
\* the last pass, return resp.
GetAttempt ==
    /\ npc = "get"
    /\ RetryLoopGoesOn(attempt)
    /\ \E o \in Outcomes :
          /\ resp' = IF o = "exception" THEN resp ELSE o
          /\ last' = o
          /\ nFailed' = IF o = "200" THEN nFailed ELSE nFailed + 1
          /\ npc' = IF AttemptReturns(o) \/ ~RetryLoopGoesOn(attempt + 1)
                    THEN "gotresp"
                    ELSE "get"
    /\ attempt' = attempt + 1
    /\ nHttp' = nHttp + 1
    /\ UNCHANGED <<tier, call, requested, probed, nRefresh, result, built, pageVars>>

\* tidal.py 69-74: resp.status_code of the first get(): an AttributeError when resp is
\* None; on 401 or 403 refresh() (which may raise), new headers and session, and the
\* second get(); the resp of the second get() is returned as it is.
SafeCheck ==
    /\ npc = "gotresp"
    /\ \/ /\ call = 1
          /\ resp = "None"
          /\ npc' = "raised"
          /\ UNCHANGED <<call, attempt, resp, last, nRefresh>>
       \/ /\ call = 1
          /\ resp # "None"
          /\ NeedsRefresh(resp)
          /\ nRefresh' = nRefresh + 1
          /\ \/ /\ call' = 2
                /\ attempt' = 0
                /\ resp' = "None"
                /\ last' = "none"
                /\ npc' = "get"
             \/ /\ npc' = "raised"
                /\ UNCHANGED <<call, attempt, resp, last>>
       \/ /\ call = 1
          /\ resp # "None"
          /\ ~NeedsRefresh(resp)
          /\ npc' = "handle"
          /\ UNCHANGED <<call, attempt, resp, last, nRefresh>>
       \/ /\ call = 2
          /\ npc' = "handle"
          /\ UNCHANGED <<call, attempt, resp, last, nRefresh>>
    /\ UNCHANGED <<tier, requested, probed, nHttp, nFailed, result, built, pageVars>>

\* The descriptor _parsemanifest builds from the answer for tier t.
StreamUrl(t, mime) == [tier |-> t, soundQuality |-> qualities[t], mime |-> mime]

\* tidal.py 376-392: the rest of the loop pass: the answer is skipped (continue), or
\* raises, or its primary url is probed, and the descriptor is returned when
\* the probe says ok.
NegHandle ==
    /\ npc = "handle"
    /\ \E lenient \in BOOLEAN, mime \in MimeTypes, parse \in ParseOutcomes, ok \in BOOLEAN :
          IF ~isvalidresp(resp, lenient)
          THEN /\ tier' = tier + 1
               /\ npc' = "loop"
               /\ UNCHANGED <<probed, result>>
          ELSE IF mime = "None"
          THEN /\ npc' = "raised"
               /\ UNCHANGED <<tier, probed, result>>
          ELSE IF mime = "other" \/ parse # "ok"
          THEN /\ tier' = tier + 1
               /\ npc' = "loop"
               /\ UNCHANGED <<probed, result>>
          ELSE /\ probed' = Append(probed, [tier |-> tier, ok |-> ok])
               /\ IF ProbeAccepts(ok)
                  THEN /\ result' = [stream |-> StreamUrl(tier, mime), ok |-> ok]
                       /\ npc' = "returned"
                       /\ UNCHANGED tier
                  ELSE /\ tier' = tier + 1
                       /\ npc' = "loop"
                       /\ UNCHANGED result
    /\ UNCHANGED <<call, attempt, resp, last, requested, nHttp, nFailed, nRefresh, built,
                   pageVars>>

\* tidal.py 412-415 and 434-452: None when _getstreamfortrack raised, returned no
\* stream_url or a status that is not ok; else the song_info around the stream_url.
BuildSongInfo ==
    /\ npc \in {"returned", "raised"}
    /\ built' = IF npc = "raised" \/ result.stream = NoStream \/ ~result.ok
                THEN NoSongInfo
                ELSE [download_url |-> result.stream, download_url_status |-> result.ok]
    /\ npc' = "built"
    /\ UNCHANGED <<tier, call, attempt, resp, last, requested, probed, nHttp, nFailed,
                   nRefresh, result, pageVars>>

\* How the resolution of the track just built ended.
OutcomeOfTrack ==
    IF built # NoSongInfo THEN "accepted"
    ELSE IF result.stream = NoStream /\ Exhausted(tier) THEN "exhausted"
    ELSE "raised"

\* tidal.py 317-322: `if song_info: song_infos.append(song_info)`, then the next
\* pass of `for search_result in search_results` with the next track that has an id,
\* or the end of the loop.
SrNextTrack ==
    /\ npc = "built"
    /\ pageInfos' = IF built # NoSongInfo THEN Append(pageInfos, ptracks[tidx])
                    ELSE pageInfos
    /\ outcomes' = Append(outcomes, OutcomeOfTrack)
    /\ tidx' = NextTrackIdx(ptracks, tidx)
    /\ IF NextTrackIdx(ptracks, tidx) <= Len(ptracks)
       THEN /\ npc' = "loop"
            /\ tier' = 1
            /\ call' = 0
            /\ attempt' = 0
            /\ resp' = "None"
            /\ last' = "none"
            /\ requested' = <<>>
            /\ probed' = <<>>
            /\ nHttp' = 0
            /\ nFailed' = 0
            /\ nRefresh' = 0
            /\ result' = [stream |-> NoStream, ok |-> FALSE]
            /\ built' = NoSongInfo
       ELSE /\ npc' = "pagedone"
            /\ UNCHANGED <<tier, call, attempt, resp, last, requested, probed, nHttp,
                           nFailed, nRefresh, result, built>>
    /\ UNCHANGED ptracks

outsideNeg == <<orchVars, dedupVars, authVars, saveVars, pipeVars>>

NegNext ==
    \/ NegTier /\ UNCHANGED outsideNeg
    \/ NegExhausted /\ UNCHANGED outsideNeg
    \/ GetAttempt /\ UNCHANGED outsideNeg
    \/ SafeCheck /\ UNCHANGED outsideNeg
    \/ NegHandle /\ UNCHANGED outsideNeg
    \/ BuildSongInfo /\ UNCHANGED outsideNeg
    \/ SrNextTrack /\ UNCHANGED outsideNeg

InitNeg == OrchIdle /\ DedupIdle /\ NegInit /\ AuthIdle /\ SaveIdle /\ PipeIdle

SpecNeg == InitNeg /\ [][NegNext]_vars

\* The same, from the construction of the client on.
ClientNext ==
    \/ Construct /\ UNCHANGED outsideNeg
    \/ NegNext

InitClient ==
    /\ OrchIdle /\ DedupIdle /\ npc = "construct" /\ NegFresh(OneTrackPage)
    /\ AuthIdle /\ SaveIdle /\ PipeIdle

SpecClient == InitClient /\ [][ClientNext]_vars

\* The same, followed over the tracks of an answer with several tracks.
InitPage == OrchIdle /\ DedupIdle /\ NegStart(ThreeTrackPage) /\ AuthIdle /\ SaveIdle /\ PipeIdle

SpecPage == InitPage /\ [][NegNext]_vars

(***************************************************************************)
(* _saferequestget (tidal.py 67-74) over get (base.py 523-545) in the      *)
(* workers of one batch, which share the client: its auth headers and its  *)
(* tidal_session                                                           *)
(***************************************************************************)
\* What the provider answers to a request that carries the auth headers of
\* generation g.
AnswerTo(g) == IF g < validFrom THEN "401" ELSE "200"

AuthInit ==
    /\ apc = [w \in Callers |-> "get"]
    /\ acall = [w \in Callers |-> 1]
    /\ aattempt = [w \in Callers |-> 0]
    /\ aresp = [w \in Callers |-> "None"]
    /\ sentGen = [w \in Callers |-> 0]
    /\ headerGen = 0
    /\ sessionGen = 0
    /\ validFrom = 0
    /\ refreshLog = <<>>
    /\ sharedWrites = [a \in SharedAttrs |-> {}]

\* The credentials the client was constructed with expire.
Expire ==
    /\ validFrom = 0
    /\ sessionGen = 0
    /\ validFrom' = 1
    /\ UNCHANGED <<apc, acall, aattempt, aresp, sentGen, headerGen, sessionGen, refreshLog,
                   sharedWrites>>

\* The attributes in as, assigned by worker w.
WrittenBy(w, as) == [a \in SharedAttrs |-> IF a \in as THEN sharedWrites[a] \cup {w}
                                                      ELSE sharedWrites[a]]

\* base.py 526-545: one pass of the retry loop of worker w's get(): _initsession
\* makes a new self.session with the client's current headers (527-528, 59-60;
\* maintain_session is False unless the caller asks), self.session.proxies is
\* assigned (530-537), the request goes out; 200 returns, another status continues.
AuthGet(w) ==
    /\ apc[w] = "get"
    /\ RetryLoopGoesOn(aattempt[w])
    /\ sentGen' = [sentGen EXCEPT ![w] = headerGen]
    /\ aresp' = [aresp EXCEPT ![w] = AnswerTo(headerGen)]
    /\ aattempt' = [aattempt EXCEPT ![w] = @ + 1]
    /\ apc' = [apc EXCEPT ![w] =
                  IF AttemptReturns(AnswerTo(headerGen)) \/ ~RetryLoopGoesOn(aattempt[w] + 1)
                  THEN "gotresp"
                  ELSE "get"]
    /\ sharedWrites' = WrittenBy(w, {"session", "session.proxies"})
    /\ UNCHANGED <<acall, headerGen, sessionGen, validFrom, refreshLog>>

\* tidal.py 69 and 74: the test of the status of the first get(); the resp of the
\* second get() is returned.
AuthCheck(w) ==
    /\ apc[w] = "gotresp"
    /\ apc' = [apc EXCEPT ![w] =
                  IF acall[w] = 1 /\ NeedsRefresh(aresp[w]) THEN "refresh" ELSE "done"]
    /\ UNCHANGED <<acall, aattempt, aresp, sentGen, headerGen, sessionGen, validFrom,
                   refreshLog, sharedWrites>>

\* tidal.py 70: self.tidal_session.refresh(): the session gets the next credentials.
AuthRefresh(w) ==
    /\ apc[w] = "refresh"
    /\ sessionGen' = sessionGen + 1
    /\ refreshLog' = Append(refreshLog, [by |-> w, saw |-> sentGen[w]])
    /\ apc' = [apc EXCEPT ![w] = "setheaders"]
    /\ sharedWrites' = WrittenBy(w, {"tidal_session"})
    /\ UNCHANGED <<acall, aattempt, aresp, sentGen, headerGen, validFrom>>

\* tidal.py 71-73: _setauthheaders and _initsession take the session's headers over
\* into the client; the second get() begins.
AuthSetHeaders(w) ==
    /\ apc[w] = "setheaders"
    /\ headerGen' = sessionGen
    /\ acall' = [acall EXCEPT ![w] = 2]
    /\ aattempt' = [aattempt EXCEPT ![w] = 0]
    /\ aresp' = [aresp EXCEPT ![w] = "None"]
    /\ apc' = [apc EXCEPT ![w] = "get"]
    /\ sharedWrites' = WrittenBy(w, {"default_headers", "session"})
    /\ UNCHANGED <<sentGen, sessionGen, validFrom, refreshLog>>

outsideAuth == <<orchVars, dedupVars, negVars, saveVars, pipeVars>>

AuthNext ==
    \/ Expire /\ UNCHANGED outsideAuth
    \/ \E w \in Callers : AuthGet(w) /\ UNCHANGED outsideAuth
    \/ \E w \in Callers : AuthCheck(w) /\ UNCHANGED outsideAuth
    \/ \E w \in Callers : AuthRefresh(w) /\ UNCHANGED outsideAuth
    \/ \E w \in Callers : AuthSetHeaders(w) /\ UNCHANGED outsideAuth

InitAuth == OrchIdle /\ DedupIdle /\ NegIdle /\ AuthInit /\ SaveIdle /\ PipeIdle

SpecAuth == InitAuth /\ [][AuthNext]_vars

(***************************************************************************)
(* The files of _download (tidal.py 243-292, base.py 444-477) in the       *)
(* workers of one download() batch (base.py 504-511) whose song_infos have *)
(* the same song_name, ext and work_dir                                    *)
(***************************************************************************)
\* The order in which the workers were submitted.
CallerOrder == <<"w1", "w2">>

SubmittedBefore(w) ==
    {v \in Callers : \E i, j \in 1..Len(CallerOrder) :
                        i < j /\ CallerOrder[i] = v /\ CallerOrder[j] = w}

Saving == {w \in Callers : spc[w] \notin {"queued", "done", "failed"}}

NameTaken_never(fs, n) == FALSE

\* os.path.exists(save_path).
NameTaken(fs, n) == fs[n] # "none"

ScratchAfterExit_leak(raisedInside) == raisedInside

\* Whether the directory of `with tempfile.TemporaryDirectory(...) as tmpdir` is
\* there after the with-block was left, by its end or by an exception.
ScratchAfterExit(raisedInside) == FALSE

SaveInit ==
    /\ spc = [w \in Callers |-> "queued"]
    /\ save_path = [w \in Callers |-> 0]
    /\ same_name_file_idx = [w \in Callers |-> 0]
    /\ scratch = [w \in Callers |-> FALSE]
    /\ failedAt = [w \in Callers |-> "none"]
    /\ files \in {fs \in [Names -> {"none", "old"}] :
                     \A n \in Names \ OldNames : fs[n] = "none"}
    /\ files0 = files
    /\ clobbered = {}
    /\ wrote = [w \in Callers |-> {}]
    /\ tagFailed = [w \in Callers |-> FALSE]
    /\ sthreads \in {1, 2}
    /\ client \in {"tidal", "base"}
    /\ cut = FALSE
    /\ bpc = "waiting"

\* The except clause after an exception at the position of worker w; an exception
\* inside the with-block of tidal.py 258 leaves the block first.
SvRaise(w, inside) ==
    /\ spc' = [spc EXCEPT ![w] = "failed"]
    /\ failedAt' = [failedAt EXCEPT ![w] = spc[w]]
    /\ scratch' = [scratch EXCEPT ![w] = IF inside THEN ScratchAfterExit(TRUE) ELSE @]

\* base.py 504-508: a thread of the pool takes the worker submitted first.
SvStart(w) ==
    /\ spc[w] = "queued"
    /\ Cardinality(Saving) < sthreads
    /\ \A v \in SubmittedBefore(w) : spc[v] # "queued"
    /\ spc' = [spc EXCEPT ![w] = "prepare"]
    /\ UNCHANGED <<save_path, same_name_file_idx, scratch, failedAt, files, files0,
                   clobbered, wrote, tagFailed, sthreads, client, cut, bpc>>

\* tidal.py 244-258: touchdir, the extensions, the progress task, and the entry into
\* the with-block, which makes the scratch directory; base.py 445-461: touchdir, the
\* request, the file name; the first save_path is <song_name><ext>.
SvPrepare(w) ==
    /\ spc[w] = "prepare"
    /\ \/ /\ SvRaise(w, FALSE)
          /\ UNCHANGED <<save_path, same_name_file_idx>>
       \/ /\ client = "tidal"
          /\ scratch' = [scratch EXCEPT ![w] = TRUE]
          /\ spc' = [spc EXCEPT ![w] = "fetch"]
          /\ UNCHANGED <<save_path, same_name_file_idx, failedAt>>
       \/ /\ client = "base"
          /\ spc' = [spc EXCEPT ![w] = "name"]
          /\ save_path' = [save_path EXCEPT ![w] = 0]
          /\ same_name_file_idx' = [same_name_file_idx EXCEPT ![w] = 1]
          /\ UNCHANGED <<scratch, failedAt>>
    /\ UNCHANGED <<files, files0, clobbered, wrote, tagFailed, sthreads, client, cut, bpc>>

\* tidal.py 259-266 ("fetch": the segments into download.part, assert check),
\* 267-277 ("decrypt") and 278-287 ("remux", and the first save_path), each of which
\* may raise.
SvAssemble(w) ==
    /\ spc[w] \in {"fetch", "decrypt", "remux"}
    /\ \/ /\ SvRaise(w, TRUE)
          /\ UNCHANGED <<save_path, same_name_file_idx>>
       \/ /\ spc' = [spc EXCEPT ![w] = CASE spc[w] = "fetch" -> "decrypt"
                                          [] spc[w] = "decrypt" -> "remux"
                                          [] spc[w] = "remux" -> "name"]
          /\ save_path' = [save_path EXCEPT ![w] = IF spc[w] = "remux" THEN 0 ELSE @]
          /\ same_name_file_idx' =
                [same_name_file_idx EXCEPT ![w] = IF spc[w] = "remux" THEN 1 ELSE @]
          /\ UNCHANGED <<scratch, failedAt>>
    /\ UNCHANGED <<files, files0, clobbered, wrote, tagFailed, sthreads, client, cut, bpc>>

\* tidal.py 288-290, base.py 462-464: one test of `while os.path.exists(save_path)`,
\* and the body of the loop when the name is taken.
SvName(w) ==
    /\ spc[w] = "name"
    /\ IF NameTaken(files, save_path[w])
       THEN /\ save_path' = [save_path EXCEPT ![w] = same_name_file_idx[w]]
            /\ same_name_file_idx' = [same_name_file_idx EXCEPT ![w] = @ + 1]
            /\ UNCHANGED spc
       ELSE /\ spc' = [spc EXCEPT ![w] = "replace"]
            /\ UNCHANGED <<save_path, same_name_file_idx>>
    /\ UNCHANGED <<scratch, failedAt, files, files0, clobbered, wrote, tagFailed, sthreads, client, cut, bpc>>

\* base.py 465-476: open(save_path, "wb") makes or empties the file and the chunks
\* are written into it; an exception on the way leaves the file there. tidal.py 291:
\* replacefile(decrypted_path, save_path) puts the scratch file at save_path, or
\* raises.
SvReplace(w) ==
    /\ spc[w] = "replace"
    /\ \/ /\ client = "tidal"
          /\ SvRaise(w, TRUE)
          /\ UNCHANGED <<files, clobbered, wrote>>
       \/ /\ files' = [files EXCEPT ![save_path[w]] = w]
          /\ wrote' = [wrote EXCEPT ![w] = @ \cup {save_path[w]}]
          /\ clobbered' = IF files[save_path[w]] # "none"
                          THEN clobbered \cup {[path |-> save_path[w],
                                                was |-> files[save_path[w]], by |-> w]}
                          ELSE clobbered
          /\ \/ /\ spc' = [spc EXCEPT ![w] = "tag"]
                /\ UNCHANGED <<scratch, failedAt>>
             \/ /\ client = "base"
                /\ SvRaise(w, FALSE)
    /\ UNCHANGED <<save_path, same_name_file_idx, files0, tagFailed, sthreads, client, cut,
                   bpc>>

\* tidal.py 292: setmetadata, the last statement of the with-block, called without
\* a try of its own: a tag write that raises reaches the except clause of _download.
\* base.py 477 and 349-368: _apply_metadata catches what loading the tags, setting a
\* tag and saving them raise, and returns.
SvTag(w) ==
    /\ spc[w] = "tag"
    /\ \/ /\ client = "tidal"
          /\ SvRaise(w, TRUE)
          /\ tagFailed' = [tagFailed EXCEPT ![w] = TRUE]
       \/ /\ client = "base"
          /\ tagFailed' = [tagFailed EXCEPT ![w] = TRUE]
          /\ spc' = [spc EXCEPT ![w] = "done"]
          /\ UNCHANGED <<scratch, failedAt>>
       \/ /\ spc' = [spc EXCEPT ![w] = "done"]
          /\ scratch' = [scratch EXCEPT ![w] = ScratchAfterExit(FALSE)]
          /\ UNCHANGED <<failedAt, tagFailed>>
    /\ UNCHANGED <<save_path, same_name_file_idx, files, files0, clobbered, wrote, sthreads,
                   client, cut, bpc>>

\* base.py 509-511: the calling thread, waiting in as_completed, is interrupted
\* (KeyboardInterrupt); the with-block of the pool is left by the exception.
SvInterrupt ==
    /\ bpc = "waiting"
    /\ ~cut
    /\ cut' = TRUE
    /\ UNCHANGED <<spc, save_path, same_name_file_idx, scratch, failedAt, files, files0,
                   clobbered, wrote, tagFailed, sthreads, client, bpc>>

\* base.py 504: the end of `with ThreadPoolExecutor(...) as pool`: shutdown(wait=True)
\* returns when every submitted worker has run to its end, also when the block is
\* left by an exception.
SvPoolExit ==
    /\ bpc = "waiting"
    /\ \A w \in Callers : spc[w] \in {"done", "failed"}
    /\ bpc' = IF cut THEN "interrupted" ELSE "returned"
    /\ UNCHANGED <<spc, save_path, same_name_file_idx, scratch, failedAt, files, files0,
                   clobbered, wrote, tagFailed, sthreads, client, cut>>

outsideSave == <<orchVars, dedupVars, negVars, authVars, pipeVars>>

SaveNext ==
    \/ \E w \in Callers : SvStart(w) /\ UNCHANGED outsideSave
    \/ \E w \in Callers : SvPrepare(w) /\ UNCHANGED outsideSave
    \/ \E w \in Callers : SvAssemble(w) /\ UNCHANGED outsideSave
    \/ \E w \in Callers : SvName(w) /\ UNCHANGED outsideSave
    \/ \E w \in Callers : SvReplace(w) /\ UNCHANGED outsideSave
    \/ \E w \in Callers : SvTag(w) /\ UNCHANGED outsideSave
    \/ SvInterrupt /\ UNCHANGED outsideSave
    \/ SvPoolExit /\ UNCHANGED outsideSave

InitSave == OrchIdle /\ DedupIdle /\ NegIdle /\ AuthIdle /\ SaveInit /\ PipeIdle

SpecSave == InitSave /\ [][SaveNext]_vars

(***************************************************************************)
(* _download for one item (tidal.py 238-305, base.py 441-485): the         *)
(* extensions, the remux, the saved file, the result and the progress      *)
(* tasks                                                                   *)
(***************************************************************************)
\* Strings are sequences of tokens: "a.FLAC?k=1" is <<"a", ".FLAC", "?", "k">>.
\* The extensions that _guessstreamextension looks for.
KnownExts == {".flac", ".mp4", ".m4a", ".m4b", ".mp3", ".ogg", ".aac"}

\* The values of stream_url.url and of the items of stream_url.urls.
Urls == {<<>>, <<"seg">>, <<"a", ".FLAC">>, <<"a", ".m4a", "?", ".flac">>, <<"a", ".mp4">>}

UrlLists == {<<>>} \cup {<<u>> : u \in Urls} \cup {<<u, v>> : u, v \in Urls}

\* The values of stream_url.codec.
Codecs == {<<>>, <<"FLAC">>, <<"flac">>, <<"MP4A">>}

\* The lengths of the chunks of one response; iter_content may yield empty chunks.
ChunkLists == UNION {[1..n -> {0, 1, 2}] : n \in 0..MaxChunks}

LowerTok(t) ==
    CASE t = ".FLAC" -> ".flac"
      [] t = "FLAC" -> "flac"
      [] t = "MP4A" -> "mp4a"
      [] OTHER -> t

\* str.lower().
lower(st) == [i \in 1..Len(st) |-> LowerTok(st[i])]

\* candidate.split("?")[0].
BeforeQuery(st) ==
    LET qs == {i \in 1..Len(st) : st[i] = "?"}
    IN  IF qs = {} THEN st
        ELSE SubSeq(st, 1, (CHOOSE i \in qs : \A j \in qs : i <= j) - 1)

\* "flac" in st.
HasFlac(st) == \E i \in 1..Len(st) : st[i] = "flac"

\* tidal.py 208-212: the first candidate whose path ends with a known extension.
RECURSIVE GuessFromUrls(_)
GuessFromUrls(candidates) ==
    IF candidates = <<>> THEN "none"
    ELSE LET candidate == Head(candidates)
             lowered == lower(BeforeQuery(candidate))
         IN  IF candidate # <<>> /\ lowered # <<>> /\ lowered[Len(lowered)] \in KnownExts
             THEN lowered[Len(lowered)]
             ELSE GuessFromUrls(Tail(candidates))

\* tidal.py 204-218; a codec without "flac" gives ".m4a" on every path.
_guessstreamextension(url, urls, cd) ==
    LET candidates == (IF url # <<>> THEN <<url>> ELSE <<>>) \o urls
        found == GuessFromUrls(candidates)
    IN  IF found # "none" THEN found
        ELSE IF HasFlac(lower(cd)) THEN ".flac" ELSE ".m4a"

\* sub in st, for a sub that is one token.
HasTok(st, sub) == \E i \in 1..Len(st) : st[i] = sub

\* tidal.py 194-202: the ext that _build_song_info gives the song_info.
_guessextension(url, cd) ==
    IF HasTok(lower(url), ".flac") THEN ".flac"
    ELSE IF HasTok(lower(url), ".mp4")
    THEN (IF HasTok(lower(cd), "ac4") \/ HasTok(lower(cd), "mha1") THEN ".mp4"
          ELSE IF HasFlac(lower(cd)) THEN ".flac"
          ELSE ".m4a")
    ELSE ".m4a"

RemuxWanted_anycodec(final, native, cd) == final = ".flac" /\ native # ".flac"

\* tidal.py 247-250: remux_required before the backends are looked at.
RemuxWanted(final, native, cd) ==
    IF final # ".flac" \/ native = ".flac" THEN FALSE ELSE HasFlac(lower(cd))

NoBackend_never(ff, av) == FALSE

\* tidal.py 251: not ffmpegready() and not pyavready().
NoBackend(ff, av) == ~ff /\ ~av

ExtAfterRemux_keep(out, final, native) == final

\* tidal.py 281-286: final_ext after remuxflacstream returned; it returned another
\* path than decrypted_path when it converted.
ExtAfterRemux(out, final, native) == IF out = "converted" THEN final ELSE native

\* What remuxflacstream(decrypted_path, remux_target) leaves at the path it returns:
\* the converted stream at remux_target, or, when it could not convert, the bytes
\* as they were at decrypted_path.
remuxflacstream(out, bytes) == IF out = "converted" THEN "remuxed" ELSE bytes

CompletedAfterChunk_set(completed, n) == n

\* base.py 475: progress.advance(song_progress_id, len(chunk)).
CompletedAfterChunk(completed, n) == completed + n

\* The dict given to the worker.
song_info == "o1"

deepcopy_alias(h, o) == o

\* copy.deepcopy(song_info): a dict of a new identity.
deepcopy(h, o) == CHOOSE n \in ObjIds : ~h[n].live

\* The value written to downloaded_song_info['save_path'].
SavedPath == "work_dir/song_name"

ItemInit ==
    /\ ipc = "start"
    /\ iclient \in {"tidal", "base"}
    /\ song_ext \in {".flac", ".m4a"}
    /\ IF iclient = "tidal"
       THEN /\ surl \in Urls
            /\ surls \in UrlLists
            /\ codec \in Codecs
            /\ ffmpeg \in BOOLEAN
            /\ pyav \in BOOLEAN
            /\ remuxOut \in {"converted", "same"}
            /\ content_length = 0
            /\ chunks = <<>>
       ELSE /\ surl = <<>>
            /\ surls = <<>>
            /\ codec = <<>>
            /\ ffmpeg = FALSE
            /\ pyav = FALSE
            /\ remuxOut = "same"
            /\ content_length \in {0, 2}
            /\ chunks \in ChunkLists
    /\ downloaded_size = 0
    /\ download_ext = ""
    /\ final_ext = ""
    /\ remux_required = FALSE
    /\ remuxTried = FALSE
    /\ content = "none"
    /\ saved = NoFile
    /\ heap = [o \in ObjIds |->
                 IF o = song_info
                 THEN [live |-> TRUE, ext |-> song_ext, save_path |-> "",
                       resolved |-> FALSE]
                 ELSE NoObj]
    /\ downloaded_song_info = "none"
    /\ downloaded_song_infos = <<>>
    /\ taskTotal = <<>>
    /\ taskCompleted = 0
    /\ songsCompleted = 0

itemInputs == <<iclient, song_ext, surl, surls, codec, ffmpeg, pyav, remuxOut,
                content_length>>

\* tidal.py 302-303, base.py 483-484: the except clause.
ItRaise == ipc' = "failed"

\* tidal.py 244-256: touchdir, which may raise; the extensions; total=1.
ItDecide ==
    /\ ipc = "start"
    /\ iclient = "tidal"
    /\ \/ /\ ItRaise
          /\ UNCHANGED <<download_ext, final_ext, remux_required, taskTotal>>
       \/ LET native == _guessstreamextension(surl, surls, codec)
              wanted == RemuxWanted(song_ext, native, codec)
              fallback == wanted /\ NoBackend(ffmpeg, pyav)
          IN  /\ download_ext' = native
              /\ final_ext' = IF fallback THEN native ELSE song_ext
              /\ remux_required' = IF fallback THEN FALSE ELSE wanted
              /\ taskTotal' = <<1>>
              /\ ipc' = "fetch"
    /\ UNCHANGED <<itemInputs, chunks, downloaded_size, remuxTried, content, saved, heap,
                   downloaded_song_info, downloaded_song_infos, taskCompleted,
                   songsCompleted>>

\* tidal.py 258-277: the segments into download.part, `assert check`, the
\* decryption; any of them may raise.
ItFetch ==
    /\ ipc = "fetch"
    /\ \/ ItRaise /\ UNCHANGED content
       \/ ipc' = "remux" /\ content' = "native"
    /\ UNCHANGED <<itemInputs, chunks, downloaded_size, download_ext, final_ext,
                   remux_required, remuxTried, saved, heap, downloaded_song_info,
                   downloaded_song_infos, taskTotal, taskCompleted, songsCompleted>>

\* tidal.py 278-286.
ItRemux ==
    /\ ipc = "remux"
    /\ IF remux_required
       THEN /\ remuxTried' = TRUE
            /\ content' = remuxflacstream(remuxOut, content)
            /\ final_ext' = ExtAfterRemux(remuxOut, final_ext, download_ext)
       ELSE UNCHANGED <<remuxTried, content, final_ext>>
    /\ ipc' = "save"
    /\ UNCHANGED <<itemInputs, chunks, downloaded_size, download_ext, remux_required,
                   saved, heap, downloaded_song_info, downloaded_song_infos, taskTotal,
                   taskCompleted, songsCompleted>>

\* tidal.py 287-292: the name, replacefile, setmetadata; the last two may raise.
ItSave ==
    /\ ipc = "save"
    /\ \/ ItRaise /\ UNCHANGED saved
       \/ ItRaise /\ saved' = [ext |-> final_ext, bytes |-> content]
       \/ ipc' = "advance" /\ saved' = [ext |-> final_ext, bytes |-> content]
    /\ UNCHANGED <<itemInputs, chunks, downloaded_size, download_ext, final_ext,
                   remux_required, remuxTried, content, heap, downloaded_song_info,
                   downloaded_song_infos, taskTotal, taskCompleted, songsCompleted>>

\* tidal.py 294-296.
ItAdvance ==
    /\ ipc = "advance"
    /\ taskCompleted' = taskCompleted + 1
    /\ songsCompleted' = songsCompleted + 1
    /\ ipc' = "copy"
    /\ UNCHANGED <<itemInputs, chunks, downloaded_size, download_ext, final_ext,
                   remux_required, remuxTried, content, saved, heap,
                   downloaded_song_info, downloaded_song_infos, taskTotal>>

\* base.py 445-465: touchdir, the request and raise_for_status, which may raise;
\* total=total_size; song_info['album_artist_resolved']; the name; open(save_path).
ItBaseOpen ==
    /\ ipc = "start"
    /\ iclient = "base"
    /\ \/ ItRaise /\ UNCHANGED <<taskTotal, heap, saved>>
       \/ /\ taskTotal' = <<content_length>>
          /\ heap' = [heap EXCEPT ![song_info].resolved = TRUE]
          /\ saved' = [ext |-> heap[song_info].ext, bytes |-> "native"]
          /\ ipc' = "chunks"
    /\ UNCHANGED <<itemInputs, chunks, downloaded_size, download_ext, final_ext,
                   remux_required, remuxTried, content, downloaded_song_info,
                   downloaded_song_infos, taskCompleted, songsCompleted>>

\* base.py 466-476: one turn of the loop over iter_content, which may raise, or its
\* end.
ItChunk ==
    /\ ipc = "chunks"
    /\ \/ /\ ItRaise
          /\ UNCHANGED <<chunks, downloaded_size, taskTotal, taskCompleted>>
       \/ /\ chunks = <<>>
          /\ ipc' = "tag"
          /\ UNCHANGED <<chunks, downloaded_size, taskTotal, taskCompleted>>
       \/ /\ chunks # <<>>
          /\ chunks' = Tail(chunks)
          /\ UNCHANGED ipc
          /\ IF Head(chunks) = 0
             THEN UNCHANGED <<downloaded_size, taskTotal, taskCompleted>>
             ELSE /\ downloaded_size' = downloaded_size + Head(chunks)
                  /\ taskTotal' = IF content_length > 0 THEN taskTotal
                                  ELSE <<downloaded_size + Head(chunks)>>
                  /\ taskCompleted' = CompletedAfterChunk(taskCompleted, Head(chunks))
    /\ UNCHANGED <<itemInputs, download_ext, final_ext, remux_required, remuxTried,
                   content, saved, heap, downloaded_song_info, downloaded_song_infos,
                   songsCompleted>>

\* base.py 477-479: _apply_metadata, which returns whatever the tag library did, and
\* the advance of the batch's task.
ItBaseTag ==
    /\ ipc = "tag"
    /\ songsCompleted' = songsCompleted + 1
    /\ ipc' = "copy"
    /\ UNCHANGED <<itemInputs, chunks, downloaded_size, download_ext, final_ext,
                   remux_required, remuxTried, content, saved, heap,
                   downloaded_song_info, downloaded_song_infos, taskTotal,
                   taskCompleted>>

\* tidal.py 297, base.py 480.
ItCopy ==
    /\ ipc = "copy"
    /\ LET d == deepcopy(heap, song_info)
       IN  /\ downloaded_song_info' = d
           /\ heap' = [heap EXCEPT ![d] = heap[song_info]]
    /\ ipc' = "setpath"
    /\ UNCHANGED <<itemInputs, chunks, downloaded_size, download_ext, final_ext,
                   remux_required, remuxTried, content, saved, downloaded_song_infos,
                   taskTotal, taskCompleted, songsCompleted>>

\* tidal.py 298, base.py 481.
ItSetPath ==
    /\ ipc = "setpath"
    /\ heap' = [heap EXCEPT ![downloaded_song_info].save_path = SavedPath]
    /\ ipc' = IF iclient = "tidal" THEN "setext" ELSE "append"
    /\ UNCHANGED <<itemInputs, chunks, downloaded_size, download_ext, final_ext,
                   remux_required, remuxTried, content, saved, downloaded_song_info,
                   downloaded_song_infos, taskTotal, taskCompleted, songsCompleted>>

ItSetExt_skip ==
    /\ ipc = "setext"
    /\ ipc' = "append"
    /\ UNCHANGED <<itemInputs, chunks, downloaded_size, download_ext, final_ext,
                   remux_required, remuxTried, content, saved, heap, downloaded_song_info,
                   downloaded_song_infos, taskTotal, taskCompleted, songsCompleted>>

\* tidal.py 299.
ItSetExt ==
    /\ ipc = "setext"
    /\ heap' = [heap EXCEPT ![downloaded_song_info].ext = final_ext]
    /\ ipc' = "append"
    /\ UNCHANGED <<itemInputs, chunks, downloaded_size, download_ext, final_ext,
                   remux_required, remuxTried, content, saved, downloaded_song_info,
                   downloaded_song_infos, taskTotal, taskCompleted, songsCompleted>>

\* tidal.py 300 and 305, base.py 482 and 485.
ItAppend ==
    /\ ipc = "append"
    /\ downloaded_song_infos' = Append(downloaded_song_infos, downloaded_song_info)
    /\ ipc' = "done"
    /\ UNCHANGED <<itemInputs, chunks, downloaded_size, download_ext, final_ext,
                   remux_required, remuxTried, content, saved, heap,
                   downloaded_song_info, taskTotal, taskCompleted, songsCompleted>>

outsideItem == <<orchVars, dedupVars, negVars, authVars, saveVars, manifestVars, dashVars,
                 albumVars, fetchVars>>

ItemNext ==
    \/ ItDecide /\ UNCHANGED outsideItem
    \/ ItFetch /\ UNCHANGED outsideItem
    \/ ItRemux /\ UNCHANGED outsideItem
    \/ ItSave /\ UNCHANGED outsideItem
    \/ ItAdvance /\ UNCHANGED outsideItem
    \/ ItBaseOpen /\ UNCHANGED outsideItem
    \/ ItChunk /\ UNCHANGED outsideItem
    \/ ItBaseTag /\ UNCHANGED outsideItem
    \/ ItCopy /\ UNCHANGED outsideItem
    \/ ItSetPath /\ UNCHANGED outsideItem
    \/ ItSetExt /\ UNCHANGED outsideItem
    \/ ItAppend /\ UNCHANGED outsideItem

InitItem ==
    /\ OrchIdle /\ DedupIdle /\ NegIdle /\ AuthIdle /\ SaveIdle /\ ManifestIdle /\ DashIdle
    /\ AlbumIdle /\ FetchIdle /\ ItemInit

SpecItem == InitItem /\ [][ItemNext]_vars

\* The progress tasks of both phases: a batch of search() or download() with the
\* task of the batch, or one download with its own task and the task of its batch.
InitProgress == Init \/ InitItem

ProgressNext == Next \/ ItemNext

SpecProgress == InitProgress /\ [][ProgressNext]_vars

(***************************************************************************)
(* _parsemanifest and _primarystreamurl in one pass of the loop of         *)
(* _getstreamfortrack (tidal.py 158-192, 332-346, 381-392)                 *)
(***************************************************************************)
\* The urls a manifest may name; "" is an empty url.
SegUrls == {"", "u1", "u2"}

\* manifest['urls'] of a vnd.tidal.bt manifest, the segments of a representation.
UrlSeqs == UNION {[1..n -> SegUrls] : n \in 0..2}

\* The audio representations of a DASH manifest, each by its segments.
RepSeqs == UNION {[1..n -> UrlSeqs] : n \in 0..2}

\* StreamUrl() as it is constructed.
EmptyStreamUrl == [kind |-> "stream", url |-> "", urls |-> <<>>]

_parsemanifest_lasturl(fmt, m) ==
    IF fmt = "bt" /\ m # <<>>
    THEN [kind |-> "stream", url |-> m[Len(m)], urls |-> m]
    ELSE [kind |-> "None", url |-> "", urls |-> <<>>]

_parsemanifest_firstrep(fmt, m) ==
    IF fmt = "bt" \/ m = <<>> THEN [kind |-> "None", url |-> "", urls |-> <<>>]
    ELSE [kind |-> "stream", url |-> IF m[1] = <<>> THEN "" ELSE m[1][1], urls |-> m[1]]

\* tidal.py 158-192. vnd.tidal.bt: m is manifest['urls'], whose first item becomes
\* url and the only item of urls; without a first item the subscript raises.
\* dash+xml: m is the audio representations; _parsempd (149-156) gives no manifest
\* unless one of them has segments; the first with segments is taken.
_parsemanifest(fmt, m) ==
    IF fmt = "bt"
    THEN IF m = <<>> THEN [kind |-> "exception", url |-> "", urls |-> <<>>]
         ELSE [EmptyStreamUrl EXCEPT !.url = m[1], !.urls = <<m[1]>>]
    ELSE IF ~\E i \in 1..Len(m) : m[i] # <<>>
         THEN [kind |-> "None", url |-> "", urls |-> <<>>]
         ELSE LET representation ==
                      m[CHOOSE i \in 1..Len(m) :
                            m[i] # <<>> /\ \A j \in 1..(i - 1) : m[j] = <<>>]
              IN  [EmptyStreamUrl EXCEPT
                      !.urls = representation,
                      !.url = IF Len(representation) > 0 THEN representation[1] ELSE @]

\* tidal.py 332-346: the first candidate that is not empty, among url and then the
\* items of urls; "" for None.
_primarystreamurl(st) ==
    LET candidates == (IF st.url # "" THEN <<st.url>> ELSE <<>>)
                      \o SelectSeq(st.urls, LAMBDA c : c # "")
    IN  IF candidates = <<>> THEN "" ELSE candidates[1]

ManifestInit ==
    /\ mpc = "parse"
    /\ mformat \in {"bt", "dash"}
    /\ manifest \in IF mformat = "bt" THEN UrlSeqs ELSE RepSeqs
    /\ mstream = EmptyStreamUrl
    /\ primary_url = ""

\* tidal.py 381-386: _parsemanifest; an exception or None passes to the next quality.
MfParse ==
    /\ mpc = "parse"
    /\ mstream' = _parsemanifest(mformat, manifest)
    /\ mpc' = IF mstream'.kind = "stream" THEN "parsed" ELSE "skipped"
    /\ UNCHANGED <<mformat, manifest, primary_url>>

\* tidal.py 387-389.
MfPrimary ==
    /\ mpc = "parsed"
    /\ primary_url' = _primarystreamurl(mstream)
    /\ mpc' = IF primary_url' = "" THEN "skipped" ELSE "probe"
    /\ UNCHANGED <<mformat, manifest, mstream>>

\* tidal.py 390-392: the probe of primary_url; the descriptor is returned when the
\* probe says ok.
MfProbe ==
    /\ mpc = "probe"
    /\ \E ok \in BOOLEAN : mpc' = IF ProbeAccepts(ok) THEN "accepted" ELSE "skipped"
    /\ UNCHANGED <<mformat, manifest, mstream, primary_url>>

outsideManifest == <<orchVars, dedupVars, negVars, authVars, saveVars, itemVars, dashVars,
                     albumVars, fetchVars>>

ManifestNext ==
    \/ MfParse /\ UNCHANGED outsideManifest
    \/ MfPrimary /\ UNCHANGED outsideManifest
    \/ MfProbe /\ UNCHANGED outsideManifest

InitManifest ==
    /\ OrchIdle /\ DedupIdle /\ NegIdle /\ AuthIdle /\ SaveIdle /\ ItemIdle /\ DashIdle
    /\ AlbumIdle /\ FetchIdle /\ ManifestInit

SpecManifest == InitManifest /\ [][ManifestNext]_vars

(***************************************************************************)
(* One representation of a DASH manifest: its SegmentTemplate              *)
(* (_parsesegmenttemplate, tidal.py 87-99), the segments it expands to,    *)
(* and its codec (tidal.py 186-188)                                        *)
(***************************************************************************)
\* An attribute of an XML element: <<>> when absent, <<v>> when it has the value v.
\* The S elements of a SegmentTimeline, by their attributes d and r.
TimelineEls == {[d |-> d, r |-> r] : d \in {5, 10}, r \in {<<>>, <<0>>, <<2>>}}

Timelines == UNION {[1..n -> TimelineEls] : n \in 0..2}

\* The codecs attribute of a Representation, a sequence of tokens; <<>> for None.
CodecTags == {<<>>, <<"mp4a", ".40.2">>, <<"MP4A", ".40.2">>, <<"flac">>, <<"FLAC">>,
              <<"ec-3">>}

\* tidal.py 89: int(element.get('startNumber') or 1).
ParseStartNumber(attr) == IF attr = <<>> THEN 1 ELSE attr[1]

ParseRepeat_one(attr) == IF attr = <<>> THEN 1 ELSE attr[1]

\* tidal.py 96: int(s_el.get('r') or 0).
ParseRepeat(attr) == IF attr = <<>> THEN 0 ELSE attr[1]

\* tidal.py 92-98: template.timeline, one entry for each S element.
ParseTimeline(els) ==
    [i \in 1..Len(els) |-> [duration |-> els[i].d, repeat |-> ParseRepeat(els[i].r)]]

\* The media segments of a SegmentTemplate: each entry of the timeline repeat + 1
\* times, numbered on from number, at the times that follow from the durations.
RECURSIVE ExpandTimeline(_, _, _)
ExpandTimeline(timeline, number, time) ==
    IF timeline = <<>> THEN <<>>
    ELSE LET e == Head(timeline)
             n == e.repeat + 1
         IN  [i \in 1..n |-> [number |-> number + i - 1,
                              time |-> time + (i - 1) * e.duration]]
             \o ExpandTimeline(Tail(timeline), number + n, time + n * e.duration)

UpperTok(t) ==
    CASE t = "mp4a" -> "MP4A"
      [] t = "flac" -> "FLAC"
      [] t = "ec-3" -> "EC-3"
      [] OTHER -> t

\* str.upper().
upper(st) == [i \in 1..Len(st) |-> UpperTok(st[i])]

\* tidal.py 185-187: (representation.codec or '').upper(), and 'AAC' in place of a
\* codec that then starts with 'MP4A'.
NormalizeCodec(cd) ==
    LET u == upper(cd)
    IN  IF u # <<>> /\ u[1] = "MP4A" THEN <<"AAC">> ELSE u

DashInit ==
    /\ xpc = "template"
    /\ xtimeline \in Timelines
    /\ xstart \in {<<>>, <<1>>, <<3>>}
    /\ xcodec \in CodecTags
    /\ xtemplate = [start_number |-> 0, timeline |-> <<>>]
    /\ xsegments = <<>>
    /\ stream_codec = <<>>

\* tidal.py 87-99.
XTemplate ==
    /\ xpc = "template"
    /\ xtemplate' = [start_number |-> ParseStartNumber(xstart),
                     timeline |-> ParseTimeline(xtimeline)]
    /\ xpc' = "segments"
    /\ UNCHANGED <<xtimeline, xstart, xcodec, xsegments, stream_codec>>

\* tidal.py 184, 189: representation.segments.
XSegments ==
    /\ xpc = "segments"
    /\ xsegments' = ExpandTimeline(xtemplate.timeline, xtemplate.start_number, 0)
    /\ xpc' = "codec"
    /\ UNCHANGED <<xtimeline, xstart, xcodec, xtemplate, stream_codec>>

\* tidal.py 185-188.
XCodec ==
    /\ xpc = "codec"
    /\ stream_codec' = NormalizeCodec(xcodec)
    /\ xpc' = "done"
    /\ UNCHANGED <<xtimeline, xstart, xcodec, xtemplate, xsegments>>

outsideDash == <<orchVars, dedupVars, negVars, authVars, saveVars, itemVars, manifestVars,
                 albumVars, fetchVars>>

DashNext ==
    \/ XTemplate /\ UNCHANGED outsideDash
    \/ XSegments /\ UNCHANGED outsideDash
    \/ XCodec /\ UNCHANGED outsideDash

InitDash ==
    /\ OrchIdle /\ DedupIdle /\ NegIdle /\ AuthIdle /\ SaveIdle /\ ItemIdle /\ ManifestIdle
    /\ AlbumIdle /\ FetchIdle /\ DashInit

SpecDash == InitDash /\ [][DashNext]_vars

(***************************************************************************)
(* The loop of search() (base.py 415-428) and of parse_url (tidal.py       *)
(* 573-584) that gives every song_info its album artist and its work_dir   *)
(***************************************************************************)
\* song_info['album']: <<>> for a value that is no str, <<s>> for the str s.
\* "NULL" is the title that _build_song_info gives a track without an album
\* (tidal.py 410-452).
AlbumAttrs == {<<>>, <<"">>, <<"A">>, <<" a ">>, <<"B">>, <<"NULL">>}

\* The artist that the data of a song_info name (song_info['singers']).
Singers == {"X", "Y"}

AlbumSongs == UNION {[1..n -> [album : AlbumAttrs, singers : Singers]] : n \in 0..MaxLen}

\* album_name.strip().lower(), and None ("") for an album that is no str.
AlbumKey(attr) ==
    IF attr = <<>> THEN ""
    ELSE CASE attr[1] = "A" -> "a"
           [] attr[1] = " a " -> "a"
           [] attr[1] = "B" -> "b"
           [] attr[1] = "NULL" -> "null"
           [] OTHER -> ""

AlbumKeys == {"a", "b", "null"}

MemoLookup_never(map, key) == ""

\* base.py 422, tidal.py 576: album_artist_map.get(album_key) if album_key else None.
MemoLookup(map, key) == IF key # "" THEN map[key] ELSE ""

_resolve_artist_name_own(song, preferred_artist) == song.singers

\* base.py 114-141: the first candidate that names an artist, preferred_artist
\* before the data of the song_info.
_resolve_artist_name(song, preferred_artist) ==
    IF preferred_artist # "" THEN preferred_artist ELSE song.singers

AlbumInit ==
    /\ lkind \in {"search", "parse_url"}
    /\ lsongs \in AlbumSongs
    /\ lidx = 1
    /\ album_artist_map = [k \in AlbumKeys |-> ""]
    /\ resolutions = <<>>
    /\ lout = <<>>

\* One pass of the loop: base.py 416-428, tidal.py 574-582 with
\* _constructuniqueworkdir (base.py 370-379), which resolves once more with the
\* artist it is given as preferred_artist, and sets album_artist_resolved where the
\* song_info has none.
AlbumPass ==
    /\ lidx <= Len(lsongs)
    /\ LET song == lsongs[lidx]
           album_key == AlbumKey(song.album)
           found == MemoLookup(album_artist_map, album_key)
           resolved_artist == IF found = "" THEN _resolve_artist_name(song, "") ELSE found
           artist_raw == _resolve_artist_name(song, resolved_artist)
           inloop == IF found = ""
                     THEN <<[idx |-> lidx, album |-> song.album, preferred_artist |-> ""]>>
                     ELSE <<>>
       IN  /\ resolutions' = resolutions \o inloop \o
                                 <<[idx |-> lidx, album |-> song.album,
                                    preferred_artist |-> resolved_artist]>>
           /\ album_artist_map' = IF found = "" /\ album_key # ""
                                  THEN [album_artist_map EXCEPT ![album_key] = resolved_artist]
                                  ELSE album_artist_map
           /\ lout' = Append(lout,
                             [album_artist_resolved |-> IF lkind = "search"
                                                        THEN resolved_artist
                                                        ELSE artist_raw,
                              artist_dir |-> artist_raw])
    /\ lidx' = lidx + 1
    /\ UNCHANGED <<lkind, lsongs>>

outsideAlbum == <<orchVars, dedupVars, negVars, authVars, saveVars, itemVars, manifestVars,
                  dashVars, fetchVars>>

AlbumNext == AlbumPass /\ UNCHANGED outsideAlbum

InitAlbum ==
    /\ OrchIdle /\ DedupIdle /\ NegIdle /\ AuthIdle /\ SaveIdle /\ ItemIdle /\ ManifestIdle
    /\ DashIdle /\ FetchIdle /\ AlbumInit

SpecAlbum == InitAlbum /\ [][AlbumNext]_vars

(***************************************************************************)
(* The paging loop of _fetchalbumtracks (tidal.py 470-496) and of          *)
(* _fetchplaylisttracks (tidal.py 498-524)                                 *)
(***************************************************************************)
\* An item of a page: a track with an id, a track whose id is None, and an item
\* that dictToModel raises on.
PageItems == {"track", "noid", "bad"}

\* The track list of the server: finite.
ServerLists == UNION {[1..n -> PageItems] : n \in 0..MaxTracks}

\* data.get('totalNumberOfItems'): <<>> where it is no int.
Totals == {<<>>} \cup {<<n>> : n \in 0..MaxTracks}

\* What one request can be answered with: a valid response, one that isvalidresp
\* rejects, and none at all (get() returns None).
FetchAnswers == {"ok", "invalid", "None"}

Min(a, b) == IF a < b THEN a ELSE b

\* The page that the server answers a request for `lim` items from `off` with: it
\* has at most fcap items.
ServerPage(list, off, lim, cap) ==
    SubSeq(list, off + 1, Min(Len(list), off + Min(lim, cap)))

RECURSIVE KeepTracks(_)
\* tidal.py 482-490: of a page, the items that become a Track with an id.
KeepTracks(items) ==
    IF items = <<>> THEN <<>>
    ELSE (IF items[1] = "track" THEN <<items[1]>> ELSE <<>>) \o KeepTracks(Tail(items))

NextOffset_stay(off, n) == off

\* tidal.py 491: offset += len(items).
NextOffset(off, n) == off + n

\* tidal.py 492-494: the loop is left after this page.
LastPage(n, lim, tot, off) == n < lim \/ (tot # <<>> /\ off >= tot[1])

FetchInit ==
    /\ server \in ServerLists
    /\ reported \in Totals
    /\ fcap \in 1..limit
    /\ offset = 0
    /\ tracks = <<>>
    /\ offsets = <<>>
    /\ fpc = "loop"

\* One pass of `while True`, the same code in both functions: the request, the checks of the response and of the page,
\* the tracks of the page, the new offset, and whether the loop goes on.  A request
\* without any response makes _saferequestget raise (tidal.py 69: resp.status_code).
FetchPage ==
    /\ fpc = "loop"
    /\ Len(offsets) <= MaxTracks
    /\ offsets' = Append(offsets, offset)
    /\ \E answer \in FetchAnswers :
         LET items == ServerPage(server, offset, limit, fcap)
         IN  CASE answer = "None" ->
                    /\ fpc' = "raised"
                    /\ UNCHANGED <<offset, tracks>>
               [] answer = "invalid" \/ (answer = "ok" /\ Len(items) = 0) ->
                    /\ fpc' = "returned"
                    /\ UNCHANGED <<offset, tracks>>
               [] OTHER ->
                    /\ tracks' = tracks \o KeepTracks(items)
                    /\ offset' = NextOffset(offset, Len(items))
                    /\ fpc' = IF LastPage(Len(items), limit, reported, offset') THEN "returned"
                              ELSE "loop"
    /\ UNCHANGED <<server, reported, fcap>>

outsideFetch == <<orchVars, dedupVars, negVars, authVars, saveVars, itemVars, manifestVars,
                  dashVars, albumVars>>

FetchNext == FetchPage /\ UNCHANGED outsideFetch

InitFetch ==
    /\ OrchIdle /\ DedupIdle /\ NegIdle /\ AuthIdle /\ SaveIdle /\ ItemIdle /\ ManifestIdle
    /\ DashIdle /\ AlbumIdle /\ FetchInit

\* The loop is sequential code: a pass that can be made is made.
SpecFetch == InitFetch /\ [][FetchNext]_vars /\ WF_vars(FetchNext)

(***************************************************************************)
(* C6 and C7: _removeduplicates                                            *)
(***************************************************************************)
\* The indexes of L that carry the first record of their identifier.
FirstIdx(L) == {i \in 1..Len(L) : \A j \in 1..(i - 1) : L[j].identifier # L[i].identifier}

\* out holds exactly the records of L at the indexes idx, in L's order.
IsSubseqAt(out, L, idx) ==
    /\ Len(out) = Cardinality(idx)
    /\ \E f \in [1..Len(out) -> idx] :
          /\ \A a, b \in 1..Len(out) : a < b => f[a] < f[b]
          /\ \A a \in 1..Len(out) : out[a] = L[f[a]]

DistinctIds(L) == \A a, b \in 1..Len(L) : a # b => L[a].identifier # L[b].identifier

\* C6: what _removeduplicates returns is its input restricted to the first record of
\* each identifier, in input order; so the list search() goes on with has pairwise
\* distinct identifiers.
C6_FirstOccurrenceWins ==
    dpc \in {"once", "twice"} =>
        /\ IsSubseqAt(dOut, dIn, FirstIdx(dIn))
        /\ DistinctIds(dOut)

\* C6 witness: a list with a later duplicate that differs from the first record was
\* deduplicated.
C6_Witness ==
    /\ dpc = "once"
    /\ \E i, j \in 1..Len(dIn) :
          i < j /\ dIn[i].identifier = dIn[j].identifier /\ dIn[i] # dIn[j]
    /\ Len(dOut) = 2

\* C7: _removeduplicates(_removeduplicates(L)) = _removeduplicates(L).
C7_Idempotent == dpc = "twice" => dAgain = dOut

\* C7 witness: the second run was given a list the first run had shortened.
C7_Witness == dpc = "twice" /\ Len(dOut) < Len(dIn) /\ Len(dOut) >= 2

(***************************************************************************)
(* C1 - C5: the batches                                                    *)
(***************************************************************************)
\* The items whose worker raised.
Failed == {i \in Items : raised[i] # "none"}

ResultsOf(list, i) == {k \in 1..Len(list) : list[k].origin = i}

\* C1: download() returns exactly one result for each item whose worker did not
\* raise and none for an item whose worker raised; the completed count of the batch
\* is the number of results, so the failures are submitted minus succeeded.
C1_ResultsAreSuccesses ==
    (kind = "download" /\ mainpc = "returned") =>
        /\ \A i \in Items \ Failed : Cardinality(ResultsOf(returned, i)) = 1
        /\ \A i \in Failed : ResultsOf(returned, i) = {}
        /\ Len(returned) = NumItems - Cardinality(Failed)
        /\ batchCompleted = Len(returned)

\* C1 witness: a batch with exactly one failing worker returned the other results.
C1_Witness ==
    /\ kind = "download"
    /\ mainpc = "returned"
    /\ Cardinality(Failed) = 1
    /\ Len(returned) = NumItems - 1

Terminal(d) == d.state \in {"Success", "Error"}

NoWorkerWaits == \A i \in Executing : ENABLED WorkerStep(i)

\* C3: no running worker ever waits for another one, and search()/download() return.
C3_AlwaysReturns == []NoWorkerWaits /\ <>(mainpc = "returned")

\* C3 witness: a batch of more items than threads, some workers raising and some
\* not, has returned.
C3_Witness ==
    /\ mainpc = "returned"
    /\ NumItems > NumThreadings
    /\ Failed # {}
    /\ Failed # Items

\* C4: never more than num_threadings workers execute.
C4_BoundedParallelism == Cardinality(Executing) <= NumThreadings

\* C4 witness: in a batch of more items than threads the pool is full, and a later
\* item has completed before an earlier one.
C4_Witness ==
    /\ NumItems > NumThreadings
    /\ Cardinality(Executing) = NumThreadings
    /\ \E i, j \in Items : i < j /\ wpc[j] = "done" /\ wpc[i] \in {"assemble", "request", "loop"}

\* C5: the shared list holds no record of a worker that raised, and a step either
\* leaves the list alone or appends one record to it.
C5_SuccessfulOutputsOnly ==
    /\ [](\A i \in Failed : ResultsOf(song_infos, i) = {})
    /\ [][\/ song_infos' = song_infos
          \/ /\ Len(song_infos') = Len(song_infos) + 1
             /\ SubSeq(song_infos', 1, Len(song_infos)) = song_infos]_vars

\* C5 witness: a worker ended in the Error state while the list already held results.
C5_Witness ==
    /\ \E i \in Failed : wpc[i] = "done" /\ taskDesc[i].state = "Error"
    /\ Len(song_infos) >= 1

(***************************************************************************)
(* C8 - C10: the quality negotiation                                       *)
(***************************************************************************)
\* _getstreamfortrack has returned a descriptor.
Accepted == npc \in {"returned", "built"} /\ result.stream # NoStream

ProbesOf(t) == {k \in 1..Len(probed) : probed[k].tier = t}

\* C8: a descriptor that _getstreamfortrack returned was probed, in the pass of its
\* own tier, with the result ok, and with no other result; and a song_info that
\* _build_song_info returned holds such a descriptor.
C8_OnlyReachableAccepted ==
    /\ Accepted =>
          /\ result.ok
          /\ ProbesOf(result.stream.tier) # {}
          /\ \A k \in ProbesOf(result.stream.tier) : probed[k].ok
    /\ (npc = "built" /\ built # NoSongInfo) =>
          /\ Accepted
          /\ built.download_url = result.stream
          /\ \A k \in ProbesOf(built.download_url.tier) : probed[k].ok

\* C8 witness: the probe of the first tier said not ok, a lower tier was accepted and
\* built into a song_info.
C8_Witness ==
    /\ npc = "built"
    /\ built # NoSongInfo
    /\ Len(probed) >= 2
    /\ ~probed[1].ok

\* C9: the requests ask for HI_RES_LOSSLESS, LOSSLESS, HIGH, LOW in this order, one
\* after the other; the descriptor returned is the one of the first tier whose probe
\* said ok, and the one of the last request made; once _getstreamfortrack has
\* returned, no further request and no further probe is made.
C9_DescendingFirstAccepted ==
    /\ [](/\ Len(requested) <= 4
          /\ requested = SubSeq(<<"HI_RES_LOSSLESS", "LOSSLESS", "HIGH", "LOW">>, 1, Len(requested))
          /\ Accepted =>
                /\ result.stream.tier = Len(requested)
                /\ result.stream.soundQuality = requested[Len(requested)]
                /\ probed[Len(probed)] = [tier |-> result.stream.tier, ok |-> TRUE]
                /\ \A k \in 1..(Len(probed) - 1) : ~probed[k].ok /\ probed[k].tier < result.stream.tier)
    /\ [][(npc \in {"returned", "built"}) =>
             (requested' = requested /\ probed' = probed /\ nHttp' = nHttp)]_vars

\* C9 witness: the third tier was accepted after the first two had been tried.
C9_Witness ==
    /\ npc = "built"
    /\ Accepted
    /\ result.stream.soundQuality = "HIGH"
    /\ requested = <<"HI_RES_LOSSLESS", "LOSSLESS", "HIGH">>

\* C10 as stated: with tier k accepted, exactly k requests for playback info were sent.
C10_ExactlyKRequests == Accepted => nHttp = result.stream.tier

\* C10 amended: with tier k accepted, _saferequestget was called for playback info
\* exactly k times, once for each tier tried; the requests sent are k when every one
\* of them came back with 200, and else at least k and at most 2 * max_retries for
\* each tier (a get() makes up to max_retries attempts, and _saferequestget a second
\* get() after a 401 or 403).
C10_KCallsBoundedRequests ==
    Accepted =>
        /\ Len(requested) = result.stream.tier
        /\ nHttp >= result.stream.tier
        /\ nHttp <= 2 * max_retries * result.stream.tier
        /\ nFailed = 0 => nHttp = result.stream.tier

\* C10 witness: tiers [A(unreachable), B(reachable)]: A's probe said not ok, B was
\* accepted, after exactly 2 requests.
C10_Witness ==
    /\ Accepted
    /\ result.stream.tier = 2
    /\ probed = <<[tier |-> 1, ok |-> FALSE], [tier |-> 2, ok |-> TRUE]>>
    /\ nFailed = 0
    /\ nHttp = 2

(***************************************************************************)
(* C11: all tiers rejected                                                 *)
(***************************************************************************)
\* The ids of the tracks of the answer that have one, in order.
TracksWithId(p) == SelectSeq(p, LAMBDA x : x # "None")

\* _getstreamfortrack returned (None, None, {'ok': False, ...}).
NoPlayableStream == npc = "returned" /\ result.stream = NoStream

\* C11: _getstreamfortrack returns no descriptor and ok = False only after it has
\* requested all four tiers, in the order of the list; _build_song_info then returns
\* None; a track whose tiers were all rejected is not among the song_infos of the
\* answer, and the loop over the answer goes on with the tracks after it: at its end
\* every track with an id was resolved and the song_infos are those of the accepted
\* tracks, in order.
C11_ExhaustedAfterAllTiers ==
    /\ NoPlayableStream => requested = qualities /\ ~result.ok
    /\ (npc = "built" /\ OutcomeOfTrack = "exhausted") => built = NoSongInfo
    /\ Len(outcomes) <= Len(TracksWithId(ptracks))
    /\ \A k \in 1..Len(outcomes) :
          outcomes[k] = "exhausted" =>
             \A j \in 1..Len(pageInfos) : pageInfos[j] # TracksWithId(ptracks)[k]
    /\ npc = "pagedone" =>
          /\ Len(outcomes) = Len(TracksWithId(ptracks))
          /\ pageInfos = SelectSeq(TracksWithId(ptracks),
                                   LAMBDA id : \E k \in 1..Len(outcomes) :
                                      TracksWithId(ptracks)[k] = id /\ outcomes[k] = "accepted")

\* The first track of the answer had all four tiers rejected, the track after it was
\* accepted and is the only song_info of the answer.
C11_Witness ==
    /\ npc = "pagedone"
    /\ outcomes = <<"exhausted", "accepted">>
    /\ pageInfos = <<"T2">>
    /\ Len(requested) >= 1

(***************************************************************************)
(* C12: an answer that cannot be used                                      *)
(***************************************************************************)
\* C12: once a tier's playback-info answer is at hand, the loop pass ends in one of
\* two ways: the descriptor is returned, or this tier is skipped and the next one is
\* up; whatever mime type the answer declares (none included) and however its
\* manifest parses, the negotiation does not end there by an exception.
C12_BadAnswerSkipsTier ==
    [][(npc = "handle") => (npc' = "returned" \/ (npc' = "loop" /\ tier' = tier + 1))]_vars

(***************************************************************************)
(* C13, C14, C15: the retry loop of get()                                  *)
(***************************************************************************)
\* The statuses of the model that are 2xx.
Status2xx == {"200", "204"}

\* C13: a get() makes at most max_retries attempts, each one request, and the
\* attempt that is answered 200 is its last: get() returns then.
C13_BoundedAttempts ==
    /\ [](attempt <= max_retries)
    /\ [][(npc = "get") => (attempt' = attempt + 1 /\ nHttp' = nHttp + 1)]_vars
    /\ [][(npc = "get" /\ last' = "200") => (npc' = "gotresp" /\ resp' = "200")]_vars
    /\ [][(npc = "gotresp") => (attempt' = attempt \/ attempt' = 0)]_vars

\* get() returned the 200 of its third attempt, with attempts to spare.
C13_Witness == npc = "gotresp" /\ last = "200" /\ attempt = 3 /\ attempt < max_retries

\* C14: an attempt is followed by another one of the same get() exactly when it
\* raised or was answered with a status that is not 2xx, and attempts are left;
\* an attempt answered with a 2xx status is returned at once.
C14_Every2xxReturned ==
    [][(npc = "get") =>
          /\ (last' \in Status2xx) => (npc' = "gotresp" /\ resp' = last')
          /\ (npc' = "get") <=> (last' \notin Status2xx /\ attempt' < max_retries)]_vars

\* C15: a get() that has made all its attempts without a success returns only when
\* its last attempt produced a response, and returns that response; when the last
\* attempt raised, get() does not return.
C15_LastExceptionPropagates ==
    (npc = "gotresp" /\ attempt = max_retries /\ last # "200") =>
        (last # "exception" /\ resp = last)

(***************************************************************************)
(* C16: refresh() in _saferequestget                                       *)
(***************************************************************************)
\* A call of tidal_session.refresh().
RefreshCalled == nRefresh' = nRefresh + 1

\* C16 as stated: refresh() is called only when a get() has returned a response
\* with status 401 or 403.
C16_RefreshOnlyAfter401 ==
    [][RefreshCalled => (npc = "gotresp" /\ resp \in {"401", "403"})]_vars

\* C16, amended: after the construction of the client, refresh() is called only
\* by a _saferequestget whose first get() returned a response with status 401 or
\* 403; then either refresh() raises or get() is called once more, from its first
\* attempt; what the second get() returns is handed back without another
\* refresh(), whatever its status; a first get() that returned another status is
\* handed back without refresh().
C16_RefreshOncePerCall ==
    /\ [][RefreshCalled =>
            \/ npc = "construct"
            \/ /\ npc = "gotresp" /\ call = 1 /\ resp \in {"401", "403"}
               /\ \/ npc' = "raised"
                  \/ npc' = "get" /\ call' = 2 /\ attempt' = 0]_vars
    /\ [][(npc = "gotresp" /\ call = 1 /\ resp \in {"401", "403"}) => RefreshCalled]_vars
    /\ [][(npc = "gotresp" /\ call = 2) => (~RefreshCalled /\ npc' = "handle")]_vars
    /\ [][(npc = "gotresp" /\ resp \notin {"401", "403"}) => ~RefreshCalled]_vars
    /\ [](call <= 2)

\* A client constructed without cached session: the first get() came back 403, the
\* session was refreshed once, and the second get() came back 403 again and was
\* handed back.
C16_Witness ==
    /\ npc = "handle"
    /\ call = 2
    /\ resp = "403"
    /\ nRefresh = 1
    /\ Len(requested) = 1

(***************************************************************************)
(* C17: refresh() under concurrency                                        *)
(***************************************************************************)
\* C17: refresh() is single-flight: no two refresh() calls are made for the rejection
\* of the same credentials; of the workers that got a 401 for one generation of the
\* auth headers, one calls refresh() and the others retry with the fresh headers.
C17_SingleFlightRefresh ==
    \A i, j \in 1..Len(refreshLog) :
        refreshLog[i].saw = refreshLog[j].saw => i = j

(***************************************************************************)
(* C18, C19: the name a download is saved under                            *)
(***************************************************************************)
\* C18: no file that was in work_dir before the batch is ever written over; and
\* when the downloads run one at a time, no file at all is written over: a download
\* is saved under the first name of <name>, <name>_1, <name>_2, ... that no file has,
\* every name before it being taken, and its file stays as it wrote it.
C18_NeverOverwrites ==
    /\ \A n \in Names : files0[n] = "old" => files[n] = "old"
    /\ sthreads = 1 =>
          /\ clobbered = {}
          /\ \A w \in Callers :
                /\ spc[w] = "replace" =>
                      /\ files[save_path[w]] = "none"
                      /\ \A n \in Names : n < save_path[w] => files[n] # "none"
                /\ spc[w] \in {"tag", "done"} =>
                      /\ files[save_path[w]] = w
                      /\ \A n \in Names : n < save_path[w] => files[n] \notin {"none", w}

\* With <name><ext> there before, the downloads run one at a time: the first is
\* saved as <name>_1<ext>, the second as <name>_2<ext>.
C18_Witness ==
    /\ sthreads = 1
    /\ client = "tidal"
    /\ files0[0] = "old" /\ files0[1] = "none"
    /\ spc["w1"] = "done" /\ save_path["w1"] = 1 /\ files[1] = "w1"
    /\ spc["w2"] = "done" /\ save_path["w2"] = 2 /\ files[2] = "w2"
    /\ files[0] = "old"

\* C19: also when the workers run at the same time no file is written over, and two
\* workers that have written their file have written to different paths.
C19_ConcurrentNeverOverwrites ==
    /\ clobbered = {}
    /\ \A w, v \in Callers :
          (w # v /\ spc[w] \in {"tag", "done"} /\ spc[v] \in {"tag", "done"}) =>
             save_path[w] # save_path[v]

(***************************************************************************)
(* C20: the scratch directory                                              *)
(***************************************************************************)
\* C20: a TIDAL worker has its scratch directory exactly while it is inside the
\* with-block; a worker that has returned, after a success or after an exception at
\* any position, has none; and when download() is left, by its return or by an
\* interruption of the calling thread, every worker has run to its end and no
\* scratch directory is there.
C20_ScratchReleased ==
    /\ \A w \in Callers :
          /\ spc[w] \in {"queued", "prepare", "done", "failed"} => ~scratch[w]
          /\ (client = "tidal" /\ spc[w] \in {"fetch", "decrypt", "remux", "name", "replace", "tag"})
                => scratch[w]
    /\ bpc \in {"returned", "interrupted"} =>
          \A w \in Callers : spc[w] \in {"done", "failed"} /\ ~scratch[w]

\* The batch was cut short; the worker that raised while decrypting and the worker
\* that succeeded have both left no scratch directory.
C20_Witness ==
    /\ client = "tidal"
    /\ bpc = "interrupted"
    /\ failedAt["w1"] = "decrypt"
    /\ spc["w2"] = "done"
    /\ \A w \in Callers : ~scratch[w]

(***************************************************************************)
(* C21, C22: what a download leaves in work_dir                            *)
(***************************************************************************)
\* C21: a download that succeeded has put bytes under exactly one name of work_dir,
\* a name that no file had when it wrote, and has changed no file that was there.
C21_ExactlyOneNewFile ==
    \A w \in Callers :
        spc[w] = "done" =>
            /\ wrote[w] = {save_path[w]}
            /\ files0[save_path[w]] = "none"
            /\ \A c \in clobbered : c.by # w

\* C22: a worker whose tag write failed after it had saved its file ends in Success
\* (its result is appended) and its file is there.
C22_TagFailureNotFatal ==
    \A w \in Callers :
        tagFailed[w] => (spc[w] = "done" /\ files[save_path[w]] # "none")

(***************************************************************************)
(* C23, C24, C25: the remux of a TIDAL download                            *)
(***************************************************************************)
\* The item asks for .flac, its stream has another extension, and the codec of the
\* stream names FLAC.
FlacInOtherContainer ==
    /\ iclient = "tidal"
    /\ song_ext = ".flac"
    /\ download_ext \notin {"", ".flac"}
    /\ HasFlac(lower(codec))

\* C23: the remux is required, and remuxflacstream called, only for an item that
\* asks for .flac, whose stream has another extension and whose codec names FLAC.
C23_RemuxOnlyIfAllThree ==
    (remux_required \/ remuxTried) => FlacInOtherContainer

\* A FLAC stream in an .mp4 container, asked for as .flac, was remuxed and saved.
C23_Witness ==
    /\ remuxTried
    /\ codec = <<"FLAC">>
    /\ download_ext = ".mp4"
    /\ ipc = "done"
    /\ saved = [ext |-> ".flac", bytes |-> "remuxed"]

\* C24: when the remux is wanted but neither backend is there, remuxflacstream is
\* never called, the step where it would have been called does not fail, and the
\* stream is saved as it came, under its own extension, which is also the ext of
\* the result.
C24_NoBackendKeepsNative ==
    /\ []((FlacInOtherContainer /\ ~ffmpeg /\ ~pyav) =>
            /\ ~remuxTried
            /\ ~remux_required
            /\ final_ext = download_ext
            /\ saved \in {NoFile, [ext |-> download_ext, bytes |-> "native"]}
            /\ \A i \in 1..Len(downloaded_song_infos) :
                  heap[downloaded_song_infos[i]].ext = download_ext)
    /\ [][(~ffmpeg /\ ~pyav /\ ipc = "remux") => ipc' = "save"]_vars

\* Such an item ended in Success, saved as .m4a.
C24_Witness ==
    /\ FlacInOtherContainer /\ ~ffmpeg /\ ~pyav
    /\ ipc = "done"
    /\ saved = [ext |-> ".m4a", bytes |-> "native"]
    /\ heap[downloaded_song_infos[1]].ext = ".m4a"

\* C25: when remuxflacstream was called and did not convert, the item does not fail
\* at that step, and what is saved is the stream as it was before, under its own
\* extension, which is also the ext of the result.
C25_RemuxFailureFallsBack ==
    /\ []((remuxTried /\ remuxOut = "same") =>
            /\ final_ext = download_ext
            /\ content = "native"
            /\ saved \in {NoFile, [ext |-> download_ext, bytes |-> "native"]}
            /\ \A i \in 1..Len(downloaded_song_infos) :
                  heap[downloaded_song_infos[i]].ext = download_ext)
    /\ [][(remux_required /\ ipc = "remux") => (remuxTried' /\ ipc' = "save")]_vars

\* A remux that did not convert, and the item in Success with the .mp4 it fetched.
C25_Witness ==
    /\ remuxTried /\ remuxOut = "same"
    /\ ipc = "done"
    /\ song_ext = ".flac"
    /\ saved = [ext |-> ".mp4", bytes |-> "native"]
    /\ heap[downloaded_song_infos[1]].ext = ".mp4"

(***************************************************************************)
(* C26: the result of a download                                           *)
(***************************************************************************)
\* The results list holds only dicts other than the song_info given to the worker,
\* each with the saved path and the extension of the saved file and otherwise equal
\* to the song_info, which has neither been given a save_path nor another ext.
ResultsAreCopies ==
    /\ \A i \in 1..Len(downloaded_song_infos) :
          LET o == downloaded_song_infos[i]
          IN  /\ o # song_info
              /\ heap[o].live
              /\ heap[o].save_path = SavedPath
              /\ heap[o].ext = saved.ext
              /\ heap[o].resolved = heap[song_info].resolved
    /\ heap[song_info].save_path = ""
    /\ heap[song_info].ext = song_ext

\* C26: the worker appends one result when it ends in Success and none when it
\* fails; the result is a copy of the song_info with save_path and ext; and a dict
\* that is in the results list is not written again.
C26_ResultOnceAndIndependent ==
    /\ [](/\ Len(downloaded_song_infos) <= 1
          /\ (ipc = "done") <=> (Len(downloaded_song_infos) = 1)
          /\ ResultsAreCopies)
    /\ [][\A i \in 1..Len(downloaded_song_infos) :
             heap'[downloaded_song_infos[i]] = heap[downloaded_song_infos[i]]]_vars

\* A result whose ext is not the one the song_info has.
C26_Witness ==
    /\ ipc = "done"
    /\ Len(downloaded_song_infos) = 1
    /\ heap[song_info].ext = ".flac"
    /\ heap[downloaded_song_infos[1]].ext = ".mp4"
    /\ heap[downloaded_song_infos[1]].save_path = SavedPath

(***************************************************************************)
(* C27: the progress tasks                                                 *)
(***************************************************************************)
\* The total that the item's task has once the worker has set it: 1 for a TIDAL
\* download, the content length for a download of the base client, or, when the
\* response has none, the size downloaded so far.
DiscoveredTotal ==
    IF iclient = "tidal" THEN 1
    ELSE IF content_length > 0 THEN content_length ELSE downloaded_size

\* C27: the completed count of no task ever decreases, in a search batch, in a
\* download batch and in a download; the task of a download has no total (None)
\* until its worker sets one, has one from then on, and the total is the length the
\* worker has found.
C27_ProgressMonotone ==
    /\ [][/\ batchCompleted' >= batchCompleted
          /\ taskCompleted' >= taskCompleted
          /\ songsCompleted' >= songsCompleted]_vars
    /\ [](ipc = "start" => taskTotal = <<>>)
    /\ [][taskTotal # <<>> => taskTotal' # <<>>]_vars
    /\ [](ipc \notin {"idle", "start", "failed"} => taskTotal = <<DiscoveredTotal>>)

\* A response without content length, in chunks of 2 and 1 bytes: the task ends
\* with 3 of 3.
C27_Witness ==
    /\ iclient = "base"
    /\ content_length = 0
    /\ ipc = "done"
    /\ taskCompleted = 3
    /\ taskTotal = <<3>>
    /\ songsCompleted = 1

(***************************************************************************)
(* C28: what the workers of a batch write on the client they share         *)
(***************************************************************************)
\* C28: no attribute of the shared client (the session, its proxies, the default
\* headers, the credentials) is assigned by more than one worker of the batch.
C28_NoSharedClientWrites ==
    \A a \in SharedAttrs : Cardinality(sharedWrites[a]) <= 1

(***************************************************************************)
(* C29: the snapshot of a batch                                            *)
(***************************************************************************)
\* C29: no batch writes more than one snapshot, and a batch that has returned has
\* written exactly one, which lists what the batch returned.
C29_SnapshotOncePerBatch ==
    /\ Len(snapshots) <= 1
    /\ mainpc = "returned" =>
          /\ Len(snapshots) = 1
          /\ snapshots[1].entries = returned
          /\ snapshots[1].file = IF kind = "search" THEN "search_results.pkl"
                                                     ELSE "download_results.pkl"

(***************************************************************************)
(* C30: the descriptor the negotiation accepts                             *)
(***************************************************************************)
\* C30: a descriptor that the pass returns has a urls list that is not empty and a
\* url that is the first item of the list; the url that was probed is not empty and
\* is an item of the list, the first one unless that is empty.
C30_AcceptedIsResolved ==
    mpc = "accepted" =>
        /\ Len(mstream.urls) > 0
        /\ mstream.url = mstream.urls[1]
        /\ primary_url # ""
        /\ \E i \in 1..Len(mstream.urls) : mstream.urls[i] = primary_url
        /\ mstream.urls[1] # "" => primary_url = mstream.urls[1]

\* A DASH manifest whose first audio representation has no segments and whose
\* second has two: the descriptor has both, and the first of them as url.
C30_Witness ==
    /\ mpc = "accepted"
    /\ mformat = "dash"
    /\ manifest = <<(<<>>), <<"u1", "u2">>>>
    /\ mstream.urls = <<"u1", "u2">>
    /\ mstream.url = "u1"

(***************************************************************************)
(* C31: the segments of a SegmentTemplate                                  *)
(***************************************************************************)
\* The repeat count of the S element el: its attribute r, 0 when it has none.
RepeatOf(el) == IF el.r = <<>> THEN 0 ELSE el.r[1]

RECURSIVE SegmentCount(_)
SegmentCount(els) ==
    IF els = <<>> THEN 0 ELSE RepeatOf(Head(els)) + 1 + SegmentCount(Tail(els))

\* C31: the template expands to r + 1 segments for each S element with repeat count
\* r (0 without the attribute), numbered one after the other from startNumber (1
\* without the attribute), at strictly increasing times.
C31_TimelineExpansion ==
    xpc \in {"codec", "done"} =>
        /\ Len(xsegments) = SegmentCount(xtimeline)
        /\ \A i \in 1..Len(xsegments) :
              xsegments[i].number = (IF xstart = <<>> THEN 1 ELSE xstart[1]) + i - 1
        /\ \A i \in 1..(Len(xsegments) - 1) : xsegments[i].time < xsegments[i + 1].time

\* The timeline [{d:10, r:2}, {d:5}] with startNumber 1 gives the segments 1..4 at
\* the times 0, 10, 20, 30.
C31_Witness ==
    /\ xpc = "done"
    /\ xtimeline = <<[d |-> 10, r |-> <<2>>], [d |-> 5, r |-> <<>>]>>
    /\ xstart = <<1>>
    /\ xsegments = <<[number |-> 1, time |-> 0], [number |-> 2, time |-> 10],
                     [number |-> 3, time |-> 20], [number |-> 4, time |-> 30]>>

(***************************************************************************)
(* C34: the codec of a DASH descriptor                                     *)
(***************************************************************************)
\* C34: the codec of the descriptor is AAC for a codecs attribute that starts with
\* mp4a, and the attribute as it is written for every other.
C34_CodecPassesThrough ==
    xpc = "done" =>
        stream_codec = IF xcodec # <<>> /\ xcodec[1] \in {"mp4a", "MP4A"} THEN <<"AAC">>
                       ELSE xcodec

(***************************************************************************)
(* C32: the representation a DASH descriptor is made from                  *)
(***************************************************************************)
\* The audio representations of the manifest that have segments, by position.
WithSegments == {i \in 1..Len(manifest) : manifest[i] # <<>>}

\* C32: of a DASH manifest, _parsemanifest makes a descriptor whose urls are the
\* segments of the first audio representation that has any, in their order; when
\* none has, it makes no descriptor, and the pass is over without any probe.
C32_FirstRepresentationWithSegments ==
    (mformat = "dash" /\ mpc \notin {"idle", "parse"}) =>
        IF WithSegments = {}
        THEN mstream.kind = "None" /\ mpc = "skipped"
        ELSE /\ mstream.kind = "stream"
             /\ \E i \in WithSegments :
                   /\ \A j \in WithSegments : i <= j
                   /\ mstream.urls = manifest[i]

\* The first audio representation has no segments, the second has two: the
\* descriptor has the two, in their order.
C32_Witness ==
    /\ mformat = "dash"
    /\ mpc = "probe"
    /\ manifest = <<(<<>>), <<"u2", "u1">>>>
    /\ mstream.urls = <<"u2", "u1">>

(***************************************************************************)
(* C33, C40: the album artist of the items of a batch                      *)
(***************************************************************************)
\* The calls that resolved the artist from the data of an item with the album key
\* k: those without a preferred_artist, which is returned as it is.
ResolutionsFor(k) ==
    {j \in 1..Len(resolutions) :
        /\ resolutions[j].preferred_artist = ""
        /\ resolutions[j].album # <<>> /\ AlbumKey(resolutions[j].album) = k}

\* The items the loop has passed whose album is a str with the album key k.
PassedWithKey(k) ==
    {i \in 1..Len(lout) : lsongs[i].album # <<>> /\ AlbumKey(lsongs[i].album) = k}

\* C33, as written: for every album key, the empty one as well, the artist is
\* resolved from the data of at most one item.
C33_OncePerAlbumKey ==
    \A k \in AlbumKeys \cup {""} : Cardinality(ResolutionsFor(k)) <= 1

\* C33, amended: for every album key that is not empty, the artist is resolved from
\* the data of one item only, the first one with that key; a later item with the
\* key takes the artist from album_artist_map.
C33_OncePerNonEmptyAlbumKey ==
    \A k \in AlbumKeys :
        /\ Cardinality(ResolutionsFor(k)) <= 1
        /\ \A j \in ResolutionsFor(k) :
              \A i \in PassedWithKey(k) : resolutions[j].idx <= i

\* Three items, of the albums "A", " a " and "B": the artist is resolved from the
\* data of the first and of the third.
C33_Witness ==
    /\ Len(lout) = 3
    /\ lsongs[1].album = <<"A">> /\ lsongs[2].album = <<" a ">> /\ lsongs[3].album = <<"B">>
    /\ {resolutions[j].idx : j \in ResolutionsFor("a") \cup ResolutionsFor("b")} = {1, 3}

\* Any two passed items with the album key k have the album artist that the data of
\* the first of them name, and the same artist directory.
SameArtistFor(k) ==
    \A i, j \in PassedWithKey(k) :
        (\A h \in PassedWithKey(k) : i <= h) =>
            /\ lout[j].album_artist_resolved = lsongs[i].singers
            /\ lout[j].artist_dir = lout[i].artist_dir

\* C40, as written: for every album key, the empty one as well.
C40_SameArtistPerAlbumKey == \A k \in AlbumKeys \cup {""} : SameArtistFor(k)

\* C40, amended: for every album key that is not empty.
C40_SameArtistPerNonEmptyAlbumKey == \A k \in AlbumKeys : SameArtistFor(k)

\* Two items of one album whose data name different artists: both have the artist
\* of the first.
C40_Witness ==
    /\ lkind = "parse_url"
    /\ Len(lout) = 2
    /\ lsongs[1] = [album |-> <<"NULL">>, singers |-> "X"]
    /\ lsongs[2] = [album |-> <<"NULL">>, singers |-> "Y"]
    /\ lout[2] = [album_artist_resolved |-> "X", artist_dir |-> "X"]

(***************************************************************************)
(* C39: the paging loop ends                                               *)
(***************************************************************************)
\* The offsets offsets so far grow strictly, and while the loop goes on every page
\* so far was a full one that ended below the reported total.
FetchProgress ==
    /\ \A i, j \in 1..Len(offsets) : i < j => offsets[i] < offsets[j]
    /\ fpc = "loop" =>
          /\ offset = limit * Len(offsets)
          /\ offset <= Len(server)
          /\ reported # <<>> /\ offsets # <<>> => offset < reported[1]

\* C39: the offset of the requests grows strictly from page to page; the loop goes on
\* only after a valid, full page below the reported total; the fetch ends, for every
\* finite track list of the server; and the tracks it has are tracks with an id.
C39_FetchTerminates ==
    /\ [](fpc # "idle" => FetchProgress)
    /\ [](fpc # "idle" => \A i \in 1..Len(tracks) : tracks[i] = "track")
    /\ (fpc = "loop") ~> (fpc \in {"returned", "raised"})

\* A list fetched with three requests, all of its tracks but the one without id
\* returned.
C39_Witness ==
    /\ fpc = "returned"
    /\ offsets = <<0, limit, 2 * limit>>
    /\ server[2] = "noid"
    /\ Len(tracks) = Len(server) - 1

(***************************************************************************)
(* C35: a tier whose request got no response                               *)
(***************************************************************************)
\* C35: when the get() of a tier's playback-info request has returned without any
\* response, the negotiation does not end by an exception: the tier is skipped and
\* the next one is up, and a track is given up without a stream only after all four
\* tiers were requested.
C35_NoResponseSkipsTier ==
    /\ [][(npc = "gotresp" /\ resp = "None") => (npc' # "raised")]_vars
    /\ []((npc = "built" /\ built = NoSongInfo /\ resp = "None" /\ result.stream = NoStream)
            => requested = qualities)

(***************************************************************************)
(* C36: what a failed download leaves in work_dir                          *)
(***************************************************************************)
\* C36: a download that ended in Failed has left no file in work_dir: every file
\* that a download has put there belongs to a download that ended in Success.
C36_FailedLeavesNoFile ==
    \A w \in Callers :
        spc[w] = "failed" => \A n \in Names : files[n] # w

(***************************************************************************)
(* C37: the extension of a TIDAL result                                    *)
(***************************************************************************)
\* The TIDAL download has ended in Success.
TidalResult == iclient = "tidal" /\ ipc = "done" /\ Len(downloaded_song_infos) = 1

\* The remux was made and converted the stream.
Remuxed == remuxTried /\ remuxOut = "converted"

\* C37, as written, for a song_info with the ext that _build_song_info gives it: the
\* ext of the result is the extension of the saved file, and it is the native
\* extension of the stream unless the remux was made and converted.
C37_NativeExtUnlessRemuxed ==
    (TidalResult /\ song_ext = _guessextension(surl, codec)) =>
        /\ heap[downloaded_song_infos[1]].ext = saved.ext
        /\ saved.ext # download_ext => Remuxed

\* C37, amended: the ext of the result is the extension of the saved file; it is the
\* native extension of the stream when the remux was wanted and no backend was there
\* or the remux did not convert, and the ext of the song_info in every other case,
\* the remux that converted among them.
C37_FinalExtIsSavedExt ==
    TidalResult =>
        /\ heap[downloaded_song_infos[1]].ext = saved.ext
        /\ saved.ext = IF FlacInOtherContainer /\ ~Remuxed THEN download_ext ELSE song_ext
        /\ Remuxed => saved.ext = ".flac"

\* An AAC stream at a url that ends in .mp4: no remux, saved and recorded as .m4a.
C37_Witness ==
    /\ TidalResult
    /\ surl = <<"a", ".mp4">> /\ codec = <<"MP4A">>
    /\ song_ext = _guessextension(surl, codec)
    /\ download_ext = ".mp4"
    /\ ~remuxTried
    /\ saved.ext = ".m4a"
    /\ heap[downloaded_song_infos[1]].ext = ".m4a"

(***************************************************************************)
(* C38: the identifiers that search() returns                              *)
(***************************************************************************)
\* The identifiers of the records of a list.
IdsOf(list) == {list[k].identifier : k \in 1..Len(list)}

\* The identifiers that the answers of the server give: those of the pages of the
\* search urls whose request did not fail.
IdsOfAnswers == UNION {{page[i][k] : k \in 1..Len(page[i])} : i \in Items \ Failed}

\* C38: the identifiers that search() returns are those of the answers, each once,
\* in whatever order the workers ran and appended.
C38_IdsIndependentOfOrder ==
    (kind = "search" /\ mainpc = "returned") =>
        /\ IdsOf(returned) = IdsOfAnswers
        /\ Cardinality(IdsOf(returned)) = Len(returned)

\* Two search urls answered with the same track: the record kept is the one of the
\* url submitted later, whose worker appended first.
C38_Witness ==
    /\ kind = "search" /\ mainpc = "returned"
    /\ page[1] = <<"T1", "T2">> /\ page[2] = <<"T1">>
    /\ returned[1] = [identifier |-> "T1", origin |-> 2]
    /\ IdsOf(returned) = {"T1", "T2"}
====
